---- MODULE Spec2Model ----
(***************************************************************************)
(* pollytest: the virtual clock (TimeController over @sinonjs/fake-timers), *)
(* the duration parser and the network recorder's use of them.             *)
(*                                                                         *)
(* JavaScript values are modelled as follows.                              *)
(*   number   an integer, or NaN (the one non-integer a duration or a time *)
(*            of this program can become)                                  *)
(*   string   a tuple of one-character strings, so that the regular        *)
(*            expressions of the source can be run over it                 *)
(*   promise  an operation in flight (the variable op): each macrotask of  *)
(*            the operation is one step                                    *)
(***************************************************************************)
EXTENDS Integers, Sequences, FiniteSets, TLC

----------------------------------------------------------------------------
(* Bounds of the model *)

\* the test code schedules a timer while fewer than this many are on record
MaxScheduled == 1
\* how far past its start a clock is advanced
MaxElapsed == 2
\* a recording holds at most this many requests
MaxRecorded == 2
\* stands for the clock's loopLimit (1000 in fake-timers): runAllAsync gives up
\* after this many timers
LoopLimit == 3

----------------------------------------------------------------------------
(* JavaScript numbers *)

\* NaN: a value outside every time and duration of the model
NaN == 0 - 1000000

IsNaN(x) == x = NaN

\* a + b
Plus(a, b) == IF IsNaN(a) \/ IsNaN(b) THEN NaN ELSE a + b

\* a - b
Minus(a, b) == IF IsNaN(a) \/ IsNaN(b) THEN NaN ELSE a - b

\* a * b
Times(a, b) == IF IsNaN(a) \/ IsNaN(b) THEN NaN ELSE a * b

\* a < b, a <= b, a >= b: false as soon as one side is NaN
Lt(a, b) == ~IsNaN(a) /\ ~IsNaN(b) /\ a < b
Leq(a, b) == ~IsNaN(a) /\ ~IsNaN(b) /\ a <= b
Geq(a, b) == Leq(b, a)

----------------------------------------------------------------------------
(* parseDuration *)

DigitChars == {"0", "1", "2", "3", "4", "5", "6", "7", "8", "9"}
\* a-z and A-Z, in order
Alphabet ==
    <<"a", "b", "c", "d", "e", "f", "g", "h", "i", "j", "k", "l", "m",
      "n", "o", "p", "q", "r", "s", "t", "u", "v", "w", "x", "y", "z">>
Capitals ==
    <<"A", "B", "C", "D", "E", "F", "G", "H", "I", "J", "K", "L", "M",
      "N", "O", "P", "Q", "R", "S", "T", "U", "V", "W", "X", "Y", "Z">>
LowerChars == { Alphabet[i] : i \in DOMAIN Alphabet }
UpperChars == { Capitals[i] : i \in DOMAIN Capitals }
\* \s, as far as the model's strings go: a space or a tab
SpaceChars == {" ", "\t"}
\* \w : letters, digits and the underscore
WordChars == DigitChars \cup LowerChars \cup UpperChars \cup {"_"}

DigitValue(c) ==
    CASE c = "0" -> 0 [] c = "1" -> 1 [] c = "2" -> 2 [] c = "3" -> 3 [] c = "4" -> 4
      [] c = "5" -> 5 [] c = "6" -> 6 [] c = "7" -> 7 [] c = "8" -> 8 [] c = "9" -> 9

\* String.prototype.toLowerCase, one character
LowerChar(c) ==
    IF c \in UpperChars THEN Alphabet[CHOOSE i \in DOMAIN Capitals : Capitals[i] = c] ELSE c

ToLowerCase(s) == [i \in 1..Len(s) |-> LowerChar(s[i])]

AllIn(s, set) == \A i \in 1..Len(s) : s[i] \in set

\* parseInt(value, 10) of a string of digits
RECURSIVE ParseInt(_)
ParseInt(s) ==
    IF Len(s) = 0 THEN 0
    ELSE 10 * ParseInt(SubSeq(s, 1, Len(s) - 1)) + DigitValue(s[Len(s)])

\* A number past the integers of the model is kept as its decimal digits, most
\* significant first and without leading zeros (0 is <<0>>). A number of
\* JavaScript is a double: an integer below 2^53 is itself, a larger one is the
\* nearest multiple of the power of two that leaves 53 significant bits, the
\* even one on a tie.
TwoTo53 == <<9, 0, 0, 7, 1, 9, 9, 2, 5, 4, 7, 4, 0, 9, 9, 2>>

\* the digits of a digit string
DigitsOf(s) == [i \in 1..Len(s) |-> DigitValue(s[i])]

\* (the arguments are named once more inside: an argument is evaluated where it
\* is used, a local definition once)
RECURSIVE Strip(_)
Strip(digits) ==
    LET ds == digits
    IN  IF Len(ds) > 1 /\ ds[1] = 0 THEN Strip(Tail(ds)) ELSE ds

\* the digits of the natural number n
RECURSIVE Decimal(_)
Decimal(n) == IF n < 10 THEN <<n>> ELSE Decimal(n \div 10) \o <<n % 10>>

\* x < y
LessDigits(x, y) ==
    LET a == x
        b == y
    IN  \/ Len(a) < Len(b)
        \/ /\ Len(a) = Len(b)
           /\ \E i \in 1..Len(a) : a[i] < b[i] /\ \A j \in 1..(i - 1) : a[j] = b[j]

\* digits * m + carry, exactly, for m and carry within the model's integers
TimesCarry(digits, m, carry) ==
    LET ds == digits
        c[i \in 0..Len(ds)] ==
            IF i = 0 THEN carry ELSE (ds[Len(ds) + 1 - i] * m + c[i - 1]) \div 10
        carries == [i \in 0..Len(ds) |-> c[i]]
    IN  Decimal(carries[Len(ds)])
          \o [i \in 1..Len(ds) |-> (ds[i] * m + carries[Len(ds) - i]) % 10]

TimesDigits(ds, m) == Strip(TimesCarry(ds, m, 0))

\* ds + 1
Succ(ds) == Strip(TimesCarry(ds, 1, 1))

\* floor(digits / d) and digits mod d, for d up to 2^27
DivMod(digits, d) ==
    LET ds == digits
        r[i \in 0..Len(ds)] == IF i = 0 THEN 0 ELSE (r[i - 1] * 10 + ds[i]) % d
        rems == [i \in 0..Len(ds) |-> r[i]]
    IN  [div |-> Strip([i \in 1..Len(ds) |-> (rems[i - 1] * 10 + ds[i]) \div d]),
         mod |-> rems[Len(ds)]]

Odd(ds) == ds[Len(ds)] % 2 = 1

\* the model's numbers stay below 2^(53 + MaxShift)
MaxShift == 27

\* how many low bits the integer n has past its 53 most significant ones
Shift(n) ==
    CHOOSE e \in 0..MaxShift :
        /\ LessDigits(n, TimesDigits(TwoTo53, 2^e))
        /\ e > 0 => ~LessDigits(n, TimesDigits(TwoTo53, 2^(e - 1)))

\* the double nearest to the integer ds: the low bits go, and the rest is rounded
\* up when they are more than half of the last place kept, or half of it with
\* the rest odd
ToDouble(ds) ==
    LET n == Strip(ds)
        e == Shift(n)
        kept == DivMod(n, 2^e)
        up == \/ kept.mod > 2^(e - 1)
              \/ kept.mod = 2^(e - 1) /\ Odd(kept.div)
    IN  IF LessDigits(n, TwoTo53) THEN n
        ELSE TimesDigits(IF up THEN Succ(kept.div) ELSE kept.div, 2^e)

\* the integers the model computes with have at most this many digits
IntDigits == 9

\* parseInt(value, 10) * multiplier: both the parse and the product round
Product(value, multiplier) == ToDouble(TimesDigits(ToDouble(DigitsOf(value)), multiplier))

\* the own keys of the units object and their multipliers
Units ==
    (<<"m", "s">> :> 1) @@
    (<<"m", "i", "l", "l", "i", "s", "e", "c", "o", "n", "d">> :> 1) @@
    (<<"m", "i", "l", "l", "i", "s", "e", "c", "o", "n", "d", "s">> :> 1) @@
    (<<"s">> :> 1000) @@
    (<<"s", "e", "c">> :> 1000) @@
    (<<"s", "e", "c", "o", "n", "d">> :> 1000) @@
    (<<"s", "e", "c", "o", "n", "d", "s">> :> 1000) @@
    (<<"m">> :> 60000) @@
    (<<"m", "i", "n">> :> 60000) @@
    (<<"m", "i", "n", "u", "t", "e">> :> 60000) @@
    (<<"m", "i", "n", "u", "t", "e", "s">> :> 60000) @@
    (<<"h">> :> 3600000) @@
    (<<"h", "r">> :> 3600000) @@
    (<<"h", "o", "u", "r">> :> 3600000) @@
    (<<"h", "o", "u", "r", "s">> :> 3600000) @@
    (<<"d">> :> 86400000) @@
    (<<"d", "a", "y">> :> 86400000) @@
    (<<"d", "a", "y", "s">> :> 86400000)

\* units is an object literal: a lookup also finds what it inherits from
\* Object.prototype. These are the inherited names that are their own lower case
\* and match \w+; what they name is truthy and not a number.
InheritedKeys ==
    { <<"c", "o", "n", "s", "t", "r", "u", "c", "t", "o", "r">>,
      <<"_", "_", "p", "r", "o", "t", "o", "_", "_">> }

\* units[key]: a multiplier, NaN for an inherited member (value * member is NaN),
\* 0 for undefined
UnitsLookup(key) ==
    IF key \in DOMAIN Units THEN Units[key]
    ELSE IF key \in InheritedKeys THEN NaN
    ELSE 0

\* the number of leading characters of s that are in set
RECURSIVE LeadingRun(_, _)
LeadingRun(s, set) ==
    IF Len(s) = 0 \/ s[1] \notin set THEN 0
    ELSE 1 + LeadingRun(Tail(s), set)

\* what is left of s after its first n characters
Drop(s, n) == SubSeq(s, n + 1, Len(s))

\* a pattern without the \s*: the unit follows the digits at once
UnitAtOnce(s, i) == Drop(s, i)

\* with the first i characters as (\d+): \s* takes every space that follows (it
\* cannot give one back, a space is no \w), and (\w+)$ must be all of the rest
UnitAfter(s, i) == Drop(Drop(s, i), LeadingRun(Drop(s, i), SpaceChars))

MatchesWith(s, i) ==
    /\ i >= 1
    /\ i <= LeadingRun(s, DigitChars)
    /\ Len(UnitAfter(s, i)) >= 1
    /\ AllIn(UnitAfter(s, i), WordChars)

\* duration.match(/^(\d+)\s*(\w+)$/): (\d+) is greedy, so the match is the one with
\* the longest digit prefix; 0 when there is no match
MatchDigits(s) ==
    IF \E i \in 1..Len(s) : MatchesWith(s, i)
    THEN CHOOSE i \in 1..Len(s) :
            /\ MatchesWith(s, i)
            /\ \A j \in 1..Len(s) : MatchesWith(s, j) => j <= i
    ELSE 0

\* an argument of advance/tick: a number or a string
Num(n) == [t |-> "number", v |-> n]
Str(s) == [t |-> "string", v |-> s]

\* parseDuration(duration): [ok, big, ms] with ms the number returned (its digits
\* when big), or [ok = FALSE, err, text] with the message thrown and the text in it
parseDuration(duration) ==
    IF duration.t = "number" THEN [ok |-> TRUE, big |-> FALSE, ms |-> duration.v]
    ELSE LET s == duration.v
             i == MatchDigits(s)
             value == SubSeq(s, 1, i)
             unit == UnitAfter(s, i)
             multiplier == UnitsLookup(ToLowerCase(unit))
         IN  IF i = 0 THEN [ok |-> FALSE, err |-> "Invalid duration format", text |-> s]
             ELSE IF multiplier = 0
                  THEN [ok |-> FALSE, err |-> "Unknown duration unit", text |-> unit]
                  ELSE IF IsNaN(multiplier) THEN [ok |-> TRUE, big |-> FALSE, ms |-> NaN]
                  ELSE LET product == Product(value, multiplier)
                       IN  IF Len(product) <= IntDigits
                           THEN [ok |-> TRUE, big |-> FALSE,
                                 ms |-> Times(ParseInt(value), multiplier)]
                           ELSE [ok |-> TRUE, big |-> TRUE, ms |-> product]

----------------------------------------------------------------------------
(* Dates: the ISO timestamps of a response body *)

\* a Date's time value: NaN (an Invalid Date) or a number of milliseconds since
\* the epoch, kept as whole days and the milliseconds of the day
NaNTime == [nan |-> TRUE, day |-> 0, ms |-> 0]
TimeValue(day, ms) == [nan |-> FALSE, day |-> day, ms |-> ms]

MsPerDay == 86400000

\* the time value of a number of the model (a clock's time, a capture time)
TimeOfMs(n) ==
    IF IsNaN(n) THEN NaNTime ELSE TimeValue(n \div MsPerDay, n % MsPerDay)

\* time + delta, in milliseconds
AddMs(time, delta) ==
    IF time.nan \/ IsNaN(delta) THEN NaNTime
    ELSE TimeValue(time.day + ((time.ms + delta) \div MsPerDay),
                   (time.ms + delta) % MsPerDay)

IsLeapYear(y) == (y % 4 = 0 /\ y % 100 # 0) \/ y % 400 = 0

DaysInMonth(y, m) ==
    IF m = 2 THEN (IF IsLeapYear(y) THEN 29 ELSE 28)
    ELSE IF m \in {4, 6, 9, 11} THEN 30 ELSE 31

\* MakeDay: the day number of a date of the proleptic Gregorian calendar, day 0
\* being 1970-01-01 (the year is counted from March, in eras of 400 years)
DaysFromCivil(y, m, d) ==
    LET yy == IF m <= 2 THEN y - 1 ELSE y
        era == yy \div 400
        yoe == yy - era * 400
        doy == ((153 * (IF m > 2 THEN m - 3 ELSE m + 9) + 2) \div 5) + d - 1
        doe == yoe * 365 + (yoe \div 4) - (yoe \div 100) + doy
    IN  era * 146097 + doe - 719468

\* YearFromTime, MonthFromTime, DateFromTime: the date of a day number
CivilFromDays(z) ==
    LET zz == z + 719468
        era == zz \div 146097
        doe == zz - era * 146097
        yoe == (doe - (doe \div 1460) + (doe \div 36524) - (doe \div 146096)) \div 365
        doy == doe - (365 * yoe + (yoe \div 4) - (yoe \div 100))
        mp == (5 * doy + 2) \div 153
        m == IF mp < 10 THEN mp + 3 ELSE mp - 9
    IN  [year |-> yoe + era * 400 + (IF m <= 2 THEN 1 ELSE 0),
         month |-> m,
         date |-> doy - ((153 * mp + 2) \div 5) + 1]

\* the digits at these offsets of the pattern, the separators at the others
IsoDigitOffsets == {0, 1, 2, 3, 5, 6, 8, 9, 11, 12, 14, 15, 17, 18}

\* \d{4}-\d{2}-\d{2}T\d{2}:\d{2}:\d{2} matches s at position i
IsoHeadAt(s, i) ==
    /\ i + 18 <= Len(s)
    /\ \A k \in IsoDigitOffsets : s[i + k] \in DigitChars
    /\ s[i + 4] = "-"
    /\ s[i + 7] = "-"
    /\ s[i + 10] = "T"
    /\ s[i + 13] = ":"
    /\ s[i + 16] = ":"

\* the length of the match of
\* /\d{4}-\d{2}-\d{2}T\d{2}:\d{2}:\d{2}(?:\.\d{3})?Z/ at position i of s (24 with
\* the milliseconds, 20 without), 0 when it does not match there
IsoMatchLen(s, i) ==
    IF ~IsoHeadAt(s, i) THEN 0
    ELSE IF /\ i + 23 <= Len(s)
            /\ s[i + 19] = "."
            /\ \A k \in {20, 21, 22} : s[i + k] \in DigitChars
            /\ s[i + 23] = "Z"
         THEN 24
    ELSE IF i + 19 <= Len(s) /\ s[i + 19] = "Z" THEN 20
    ELSE 0

\* new Date(text).getTime() for a text the pattern matches: the fields are read
\* as UTC; a month, day, hour, minute or second out of range makes an Invalid
\* Date (24:00:00.000 is the one hour 24 there is). The engines differ on a day
\* past the end of its month (Invalid Date or the next month): the bodies of the
\* model have none.
DateParse(text) ==
    LET year == ParseInt(SubSeq(text, 1, 4))
        month == ParseInt(SubSeq(text, 6, 7))
        date == ParseInt(SubSeq(text, 9, 10))
        hour == ParseInt(SubSeq(text, 12, 13))
        minute == ParseInt(SubSeq(text, 15, 16))
        second == ParseInt(SubSeq(text, 18, 19))
        milli == IF Len(text) = 24 THEN ParseInt(SubSeq(text, 21, 23)) ELSE 0
    IN  IF /\ month \in 1..12
           /\ date \in 1..DaysInMonth(year, month)
           /\ minute <= 59
           /\ second <= 59
           /\ \/ hour <= 23
              \/ (hour = 24 /\ minute = 0 /\ second = 0 /\ milli = 0)
        THEN AddMs(TimeValue(DaysFromCivil(year, month, date), 0),
                   ((hour * 60 + minute) * 60 + second) * 1000 + milli)
        ELSE NaNTime

\* the character of a digit
DigitChar(d) ==
    CASE d = 0 -> "0" [] d = 1 -> "1" [] d = 2 -> "2" [] d = 3 -> "3" [] d = 4 -> "4"
      [] d = 5 -> "5" [] d = 6 -> "6" [] d = 7 -> "7" [] d = 8 -> "8" [] d = 9 -> "9"

\* n >= 0 in width digits, zero padded
RECURSIVE Padded(_, _)
Padded(n, width) ==
    IF width = 0 THEN <<>>
    ELSE Append(Padded(n \div 10, width - 1), DigitChar(n % 10))

\* the year of toISOString: four digits, or a sign and six digits outside
\* 0..9999
IsoYear(y) ==
    IF y \in 0..9999 THEN Padded(y, 4)
    ELSE IF y < 0 THEN <<"-">> \o Padded(0 - y, 6)
    ELSE <<"+">> \o Padded(y, 6)

\* Date.prototype.toISOString of a valid time value: YYYY-MM-DDTHH:mm:ss.sssZ
toISOString(time) ==
    LET civil == CivilFromDays(time.day)
        hours == time.ms \div 3600000
        minutes == (time.ms \div 60000) % 60
        seconds == (time.ms \div 1000) % 60
    IN  IsoYear(civil.year) \o <<"-">> \o Padded(civil.month, 2) \o <<"-">>
          \o Padded(civil.date, 2) \o <<"T">> \o Padded(hours, 2) \o <<":">>
          \o Padded(minutes, 2) \o <<":">> \o Padded(seconds, 2) \o <<".">>
          \o Padded(time.ms % 1000, 3) \o <<"Z">>

----------------------------------------------------------------------------
(* JSON.parse and JSON.stringify, for the bodies of the model: objects, arrays,
   strings without escapes, unsigned integers, true, false and null, with spaces
   for white space *)

\* a JSON value: a string, a number or a literal with its text s, an array with
\* its items, an object with its entries (key and value) in insertion order
JText(t, s) == [t |-> t, s |-> s, items |-> <<>>]
JItems(t, items) == [t |-> t, s |-> <<>>, items |-> items]

JSONLiterals ==
    { <<"n", "u", "l", "l">>, <<"t", "r", "u", "e">>, <<"f", "a", "l", "s", "e">> }

\* the result of a parse that fails, and of one that read value up to next
ParseFailed == [ok |-> FALSE, value |-> JText("none", <<>>), next |-> 0]
Parsed(value, next) == [ok |-> TRUE, value |-> value, next |-> next]

\* the first position from i on that holds no space
RECURSIVE SkipSpaces(_, _)
SkipSpaces(s, i) ==
    IF i <= Len(s) /\ s[i] \in SpaceChars THEN SkipSpaces(s, i + 1) ELSE i

\* the position of the quote that closes the string whose text starts at i; 0
\* when there is none
RECURSIVE ClosingQuote(_, _)
ClosingQuote(s, i) ==
    IF i > Len(s) THEN 0
    ELSE IF s[i] = "\"" THEN i
    ELSE ClosingQuote(s, i + 1)

\* a string that starts with the quote at i
ParseString(s, i) ==
    IF i > Len(s) \/ s[i] # "\"" \/ ClosingQuote(s, i + 1) = 0 THEN ParseFailed
    ELSE Parsed(JText("string", SubSeq(s, i + 1, ClosingQuote(s, i + 1) - 1)),
                ClosingQuote(s, i + 1) + 1)

\* s has the text lit at position i
HasAt(s, i, lit) == i + Len(lit) - 1 <= Len(s) /\ SubSeq(s, i, i + Len(lit) - 1) = lit

\* obj[key] = value: the value of a key that is there already is replaced where
\* it is
PutEntry(entries, key, value) ==
    IF \E k \in 1..Len(entries) : entries[k].key = key
    THEN [k \in 1..Len(entries) |->
             IF entries[k].key = key THEN [key |-> key, value |-> value]
             ELSE entries[k]]
    ELSE Append(entries, [key |-> key, value |-> value])

RECURSIVE ParseValue(_, _)
RECURSIVE ParseElements(_, _, _)
RECURSIVE ParseMembers(_, _, _)

\* the value that starts at or after position i0
ParseValue(s, i0) ==
    LET i == SkipSpaces(s, i0)
    IN  IF i > Len(s) THEN ParseFailed
        ELSE IF s[i] = "\"" THEN ParseString(s, i)
        ELSE IF s[i] = "{"
             THEN IF SkipSpaces(s, i + 1) <= Len(s) /\ s[SkipSpaces(s, i + 1)] = "}"
                  THEN Parsed(JItems("object", <<>>), SkipSpaces(s, i + 1) + 1)
                  ELSE ParseMembers(s, i + 1, <<>>)
        ELSE IF s[i] = "["
             THEN IF SkipSpaces(s, i + 1) <= Len(s) /\ s[SkipSpaces(s, i + 1)] = "]"
                  THEN Parsed(JItems("array", <<>>), SkipSpaces(s, i + 1) + 1)
                  ELSE ParseElements(s, i + 1, <<>>)
        ELSE IF s[i] \in DigitChars
             THEN LET n == IF s[i] = "0" THEN 1 ELSE LeadingRun(Drop(s, i - 1), DigitChars)
                  IN  Parsed(JText("number", SubSeq(s, i, i + n - 1)), i + n)
        ELSE IF \E lit \in JSONLiterals : HasAt(s, i, lit)
             THEN LET lit == CHOOSE l \in JSONLiterals : HasAt(s, i, l)
                  IN  Parsed(JText("literal", lit), i + Len(lit))
        ELSE ParseFailed

\* the elements of an array from position i on, those before them being acc
ParseElements(s, i, acc) ==
    LET item == ParseValue(s, i)
        j == SkipSpaces(s, item.next)
    IN  IF ~item.ok \/ j > Len(s) THEN ParseFailed
        ELSE IF s[j] = "," THEN ParseElements(s, j + 1, Append(acc, item.value))
        ELSE IF s[j] = "]" THEN Parsed(JItems("array", Append(acc, item.value)), j + 1)
        ELSE ParseFailed

\* the members of an object from position i on, those before them being acc
ParseMembers(s, i, acc) ==
    LET key == ParseString(s, SkipSpaces(s, i))
        colon == SkipSpaces(s, key.next)
        member == ParseValue(s, colon + 1)
        j == SkipSpaces(s, member.next)
    IN  IF ~key.ok \/ colon > Len(s) \/ s[colon] # ":" THEN ParseFailed
        ELSE IF ~member.ok \/ j > Len(s) THEN ParseFailed
        ELSE IF s[j] = ","
             THEN ParseMembers(s, j + 1, PutEntry(acc, key.value.s, member.value))
        ELSE IF s[j] = "}"
             THEN Parsed(JItems("object", PutEntry(acc, key.value.s, member.value)), j + 1)
        ELSE ParseFailed

\* JSON.parse(body): ok is false when it throws a SyntaxError
JSONParse(body) ==
    LET r == ParseValue(body, 1)
    IN  IF r.ok /\ SkipSpaces(body, r.next) = Len(body) + 1 THEN r ELSE ParseFailed

RECURSIVE JSONStringify(_)
RECURSIVE StringifyItems(_, _, _)

\* the items from the k-th on, separated by commas; the items of an object are
\* written "key":value
StringifyItems(items, k, isObject) ==
    IF k > Len(items) THEN <<>>
    ELSE (IF k > 1 THEN <<",">> ELSE <<>>)
         \o (IF isObject
             THEN <<"\"">> \o items[k].key \o <<"\"", ":">> \o JSONStringify(items[k].value)
             ELSE JSONStringify(items[k]))
         \o StringifyItems(items, k + 1, isObject)

\* JSON.stringify(value), without white space
JSONStringify(v) ==
    IF v.t = "string" THEN <<"\"">> \o v.s \o <<"\"">>
    ELSE IF v.t = "array" THEN <<"[">> \o StringifyItems(v.items, 1, FALSE) \o <<"]">>
    ELSE IF v.t = "object" THEN <<"{">> \o StringifyItems(v.items, 1, TRUE) \o <<"}">>
    ELSE v.s

----------------------------------------------------------------------------
(* State *)

VARIABLES
    ctl,          \* each TimeController: its clock (0 is null), its baseTime,
                  \* whether its config.toFake names Date, and its
                  \* config.transformResponses
    clocks,       \* the clocks FakeTimers.install has created, by number
    globalClock,  \* the clock whose setTimeout and setInterval are the process's
                  \* (0: the real ones are in place)
    globalDate,   \* the clock whose Date is the process's (0: the real one)
    ctxs,         \* the TimeContext objects getContext has handed out
    op,           \* the tickAsync/runAllAsync in flight, if any
    last,         \* the last call made and how it ended
    probes,       \* history: the timers on record, with the time each was due and
                  \* how often it ran
    recorder,     \* what setupNetworkRecorder closes over: its options, polly,
                  \* timeController and harEntries
    files,        \* the recordings directory: recording.har and snapshot.json
    test,         \* the pollyTest run: where its test callback stands
    runner        \* the pollytest command: its options, its environment and the
                  \* environment of the test command it spawned

\* what the recorder and the test runner add to the state of the time controller
world == <<recorder, files, test, runner>>

vars == <<ctl, clocks, globalClock, globalDate, ctxs, op, last, probes,
          recorder, files, test, runner>>

\* the TimeController instances of the process (one per recorder)
Controllers == {1, 2}

\* the clocks of a run: each successful install creates the next one
ClockIds == {1, 2}

\* this.clock = null
NoClock == 0

\* what install is given: a number, a Date or an ISO string
InstallArgs ==
    { [form |-> "number", ms |-> 0],
      [form |-> "Date", time |-> 20],
      [form |-> "iso", sec |-> 0, frac |-> 20] }

\* a conversion that drops the milliseconds of an ISO string
DateGetTimeWholeSeconds(arg) ==
    CASE arg.form = "number" -> arg.ms
      [] arg.form = "Date" -> arg.time
      [] arg.form = "iso" -> arg.sec * 1000

\* new Date(recordingTime).getTime()
DateGetTime(arg) ==
    CASE arg.form = "number" -> arg.ms
      [] arg.form = "Date" -> arg.time
      [] arg.form = "iso" -> arg.sec * 1000 + arg.frac

\* what advance and tick are given
DurationArgs ==
    { Num(0 - 1), Num(0), Num(1), Num(NaN),
      Str(<<"2", "m", "s">>), Str(<<"1", " ", "M", "S">>), Str(<<"2", "x">>), Str(<<"m", "s">>) }

\* the periods the test code gives setInterval
Periods == {1}

\* what a timer's callback does: nothing, throw, setTimeout(noop, 0), or
\* setTimeout(itself, 0) (the endless chain of zero-delay timers)
TestCallbacks == {"noop", "throw", "sched0", "chain0"}

\* no tickAsync or runAllAsync is in flight
Idle ==
    [kind |-> "none", name |-> "", clock |-> 0, ms |-> 0, started |-> FALSE,
     tickFrom |-> 0, tickTo |-> 0, i |-> 0, exc |-> FALSE,
     from |-> 0, fired |-> FALSE, lastFired |-> 0, chain |-> FALSE]

\* config.toFake ?? DEFAULT_TO_FAKE: the default list names Date and the timer
\* functions; the configurations of the model all name the timer functions, and
\* differ in naming Date
DEFAULT_TO_FAKE == [date |-> TRUE]
ToFakeConfigs == { DEFAULT_TO_FAKE, [date |-> FALSE] }

\* config.transformResponses when the configuration has none: enabled is not
\* false, and excludeKeys ?? [] is empty
DefaultResponses == [enabled |-> TRUE, excludeKeys |-> <<>>]

\* no recorder is set up: let polly = null, timeController = null, harEntries = [].
\* options are those of setupNetworkRecorder (headersToRedact counts when
\* redactDefault is false, that is when the option is given); realApis is
\* process.env.REAL_APIS === 'true'; hooked is true once the beforeResponse hook
\* is on polly's server; stopping is true while stop() awaits polly; controllers
\* counts the TimeControllers created so far; recorded holds the requests polly
\* has recorded and not yet persisted.
NoRecorder ==
    [options |-> [mode |-> "undefined", timeControl |-> FALSE, headersToRedact |-> <<>>,
                  redactDefault |-> TRUE],
     realApis |-> FALSE, made |-> FALSE, polly |-> FALSE, hooked |-> FALSE,
     stopping |-> FALSE, timeController |-> 0, harEntries |-> <<>>, controllers |-> 0,
     recorded |-> <<>>]

\* the names snapshots are stored under: that of the test that runs, and another
ThisSnapshot == "suite/this-test"
SnapshotNames == { ThisSnapshot, "suite/other-test" }

\* no snapshot.json under a name
NoSnapshot == [exists |-> FALSE, json |-> ""]

\* an empty recordings directory
NoFiles ==
    [har |-> [exists |-> FALSE, entries |-> <<>>],
     snapshot |-> [name \in SnapshotNames |-> NoSnapshot]]

\* the names of the environment the model follows, and the values they hold
\* ("undefined": not set)
EnvNames == {"REAL_APIS", "CI"}

EnvValues == {"undefined", "true", "false", "1"}

NoEnv == [name \in EnvNames |-> "undefined"]

\* the pollytest command before runTests is called
NoRunner ==
    [phase |-> "none", env |-> NoEnv, mode |-> "undefined",
     testCommand |-> "undefined", child |-> NoEnv, exitCode |-> 0]

\* no pollyTest is running; phase is where the test callback of pollyTest stands
NoTest == [phase |-> "none", isRealMode |-> FALSE, threw |-> FALSE]

\* new TimeController(config): controller 1 with any toFake, the others with the
\* default one
Init ==
    /\ \E toFake \in ToFakeConfigs :
          ctl = [c \in Controllers |->
                    [clock |-> NoClock, baseTime |-> 0,
                     toFake |-> IF c = 1 THEN toFake ELSE DEFAULT_TO_FAKE,
                     transformResponses |-> DefaultResponses]]
    /\ clocks = <<>>
    /\ globalClock = NoClock
    /\ globalDate = NoClock
    /\ ctxs = {}
    /\ op = Idle
    /\ last = [op |-> "new", res |-> "ok"]
    /\ probes = <<>>
    /\ recorder = NoRecorder
    /\ files = NoFiles
    /\ test = NoTest
    /\ runner = NoRunner

----------------------------------------------------------------------------
(* @sinonjs/fake-timers, as far as the TimeController uses it *)

\* getEpoch(config.now): a falsy epoch (0, NaN) is 0
GetEpoch(now) == IF IsNaN(now) THEN 0 ELSE now

\* the global setTimeout and setInterval are those of a clock
FakesInstalled == globalClock # NoClock

\* Date.isFake: install refuses to run when the global Date is a clock's
DateIsFake == globalDate # NoClock

\* the clock FakeTimers.install({now, toFake, ...}) returns; saved is what the
\* timer functions were when it replaced them (uninstall puts that back).
\* History: start is the time it was installed at, adv the sum of the durations
\* advanced so far, plain is false once something else than an advance by a
\* number has moved it.
NewClock(now, toFake) ==
    [now |-> GetEpoch(now), timers |-> <<>>, duringTick |-> FALSE,
     toFake |-> toFake, saved |-> globalClock,
     start |-> GetEpoch(now), adv |-> 0, plain |-> TRUE]

\* addTimer: callAt = clock.now + (delay || (clock.duringTick ? 1 : 0)); the timers
\* are kept in the order of their ids
CallAt(clock, delay) ==
    Plus(clock.now, IF delay # 0 THEN delay ELSE IF clock.duringTick THEN 1 ELSE 0)

\* History: probe is the number of the timer's record in probes (0: none).
AddTimer(clock, delay, interval, cb, probe) ==
    [clock EXCEPT !.timers =
        Append(@, [callAt |-> CallAt(clock, delay), interval |-> interval,
                   cb |-> cb, probe |-> probe])]

\* history: the record of a timer scheduled on clock with this delay: due is
\* clock.now + delay, the time its caller counts on, and fires is how many times
\* it has run (counted for a one-shot timer)
NewProbe(clock, delay, interval) ==
    [oneShot |-> interval = 0, fires |-> 0, due |-> Plus(clock.now, delay)]

\* inRange(from, to, timer)
InRange(timer, from, to) == Geq(timer.callAt, from) /\ Leq(timer.callAt, to)

\* firstTimerInRange / firstTimer: the timers are scanned in id order (firstTimer
\* takes them all, ranged is false) and a later one replaces the candidate when
\* compareTimers(candidate, later) is 1, which for timers in id order is: the
\* later one's callAt is smaller
RECURSIVE ScanTimers(_, _, _, _, _, _)
ScanTimers(timers, ranged, from, to, i, best) ==
    IF i > Len(timers) THEN best
    ELSE IF ranged /\ ~InRange(timers[i], from, to)
         THEN ScanTimers(timers, ranged, from, to, i + 1, best)
    ELSE IF best = 0 \/ Lt(timers[i].callAt, timers[best].callAt)
         THEN ScanTimers(timers, ranged, from, to, i + 1, i)
         ELSE ScanTimers(timers, ranged, from, to, i + 1, best)

\* a range that leaves out its upper end
firstTimerBefore(clock, from, to) ==
    ScanTimers(clock.timers, TRUE, from, Minus(to, 1), 1, 0)

\* the index of firstTimerInRange(clock, from, to), 0 when there is none
firstTimerInRange(clock, from, to) ==
    ScanTimers(clock.timers, TRUE, from, to, 1, 0)

\* the index of firstTimer(clock), 0 when there is none
firstTimer(clock) == ScanTimers(clock.timers, FALSE, 0, 0, 1, 0)

RemoveAt(s, i) == SubSeq(s, 1, i - 1) \o SubSeq(s, i + 1, Len(s))

\* a callTimer that deletes no timer
RequeueKeepsTimer(clock, i) ==
    IF clock.timers[i].interval # 0
    THEN [clock EXCEPT !.timers[i].callAt = Plus(@, clock.timers[i].interval)]
    ELSE clock

\* callTimer, before the callback runs: an interval is moved to its next time, any
\* other timer is deleted
Requeue(clock, i) ==
    IF clock.timers[i].interval # 0
    THEN [clock EXCEPT !.timers[i].callAt = Plus(@, clock.timers[i].interval)]
    ELSE [clock EXCEPT !.timers = RemoveAt(@, i)]

\* a clock that runs a timer without moving to the timer's time
AtCallbackTimeStill(cs, k, i) == [cs EXCEPT ![k] = Requeue(cs[k], i)]

\* the clocks at the moment the callback of timer i of clock k is called:
\* clock.now = timer.callAt, and callTimer has requeued or deleted the timer
AtCallback(cs, k, i) ==
    [cs EXCEPT ![k] = Requeue([cs[k] EXCEPT !.now = cs[k].timers[i].callAt], i)]

\* the callback schedules a timer
Schedules(cb) == cb \in {"sched0", "chain0"} /\ FakesInstalled

\* the callback of a timer: what it schedules goes through the global setTimeout,
\* so to the clock whose setTimeout is the process's at that moment (cs is the
\* clocks while the callback runs); with the real function in place it is a real
\* timer, which is not part of the model. History: the timer a sched0 callback
\* schedules gets the next probe.
RunCallback(cs, cb) ==
    IF Schedules(cb)
    THEN [cs EXCEPT ![globalClock] =
            AddTimer(@, 0, 0, IF cb = "chain0" THEN "chain0" ELSE "noop",
                     IF cb = "sched0" THEN Len(probes) + 1 ELSE 0)]
    ELSE cs

\* a clock that has moved 1 ms past the timer's time when the callback runs
FireTimerLate(cs, k, i) ==
    RunCallback([AtCallback(cs, k, i) EXCEPT ![k].now = Plus(@, 1)], cs[k].timers[i].cb)

\* clock k of cs runs its timer i at the timer's time
FireTimer(cs, k, i) == RunCallback(AtCallback(cs, k, i), cs[k].timers[i].cb)

\* history: the probe of the one-shot timer that ran is counted, and the timer a
\* sched0 callback scheduled is put on record
CountFire(cs, k, i) ==
    LET t == cs[k].timers[i]
        counted == IF t.probe = 0 \/ ~probes[t.probe].oneShot THEN probes
                   ELSE [probes EXCEPT ![t.probe].fires = @ + 1]
    IN  IF t.cb = "sched0" /\ Schedules(t.cb)
        THEN Append(counted, NewProbe(AtCallback(cs, k, i)[globalClock], 0, 0))
        ELSE counted

\* the promise of tickAsync(ms) or runAllAsync() on clock k, made by the call
\* `name` of a TimeContext. History: from is clock.now at the call, fired is true
\* once a timer has run, lastFired is the time of the last one that ran, chain is
\* true once a chain0 callback has run.
NewOp(kind, name, k, ms) ==
    [Idle EXCEPT !.kind = kind, !.name = name, !.clock = k, !.ms = ms,
                 !.from = clocks[k].now]

\* the last call made: res is "ok", "pending" while its promise is not settled, or
\* the error it threw or was rejected with
Outcome(name, res) == [op |-> name, res |-> res]

----------------------------------------------------------------------------
(* TimeController *)

\* an install without its guard
GuardMissing(c) == FALSE

\* if (this.clock): the guard of install
AlreadyInstalled(c) == ctl[c].clock # NoClock

\* install(recordingTime)
Install(c, arg) ==
    /\ IF AlreadyInstalled(c)
       THEN /\ last' = Outcome("install", "Error: TimeController already installed")
            /\ UNCHANGED <<ctl, clocks, globalClock, globalDate>>
       ELSE IF DateIsFake
       THEN \* FakeTimers.install throws, after this.baseTime was assigned
            /\ ctl' = [ctl EXCEPT ![c].baseTime = DateGetTime(arg)]
            /\ last' = Outcome("install", "TypeError: Can't install fake timers twice")
            /\ UNCHANGED <<clocks, globalClock, globalDate>>
       ELSE /\ Len(clocks) + 1 \in ClockIds
            /\ clocks' = Append(clocks, NewClock(DateGetTime(arg), ctl[c].toFake))
            /\ globalClock' = Len(clocks) + 1
            /\ globalDate' = IF ctl[c].toFake.date THEN Len(clocks) + 1 ELSE globalDate
            /\ ctl' = [ctl EXCEPT ![c].clock = Len(clocks) + 1,
                                  ![c].baseTime = DateGetTime(arg)]
            /\ last' = Outcome("install", "ok")
    /\ UNCHANGED <<ctxs, op, probes>>

\* an uninstall that leaves the clock's functions in place
ClockKeepsFakes(k) == UNCHANGED <<globalClock, globalDate>>

\* clock.uninstall(): every function the clock replaced is set to what the clock
\* saved when it was installed; the clock object keeps its time and its timers
ClockUninstall(k) ==
    /\ globalClock' = clocks[k].saved
    /\ globalDate' = IF clocks[k].toFake.date THEN NoClock ELSE globalDate

\* uninstall()
Uninstall(c) ==
    /\ IF ctl[c].clock # NoClock
       THEN /\ ClockUninstall(ctl[c].clock)
            /\ ctl' = [ctl EXCEPT ![c].clock = NoClock]
       ELSE UNCHANGED <<ctl, globalClock, globalDate>>
    /\ last' = Outcome("uninstall", "ok")
    /\ UNCHANGED <<clocks, ctxs, op, probes>>

\* isInstalled()
isInstalled(c) == ctl[c].clock # NoClock

\* getBaseTime()
getBaseTime(c) == ctl[c].baseTime

\* const clock = this.clock; const baseTime = this.baseTime: what the context
\* that getContext returns closes over
ContextOf(c) == [clock |-> ctl[c].clock, baseTime |-> ctl[c].baseTime]

\* getContext()
GetContext(c) ==
    /\ IF ctl[c].clock = NoClock
       THEN /\ last' = Outcome("getContext", "Error: TimeController not installed")
            /\ UNCHANGED ctxs
       ELSE /\ ctxs' = ctxs \cup {ContextOf(c)}
            /\ last' = Outcome("getContext", "ok")
    /\ UNCHANGED <<ctl, clocks, globalClock, globalDate, op, probes>>

----------------------------------------------------------------------------
(* TimeContext *)

\* now: () => new Date(clock.now), as its time value
now(x) == clocks[x.clock].now

\* nowMs: () => clock.now
nowMs(x) == clocks[x.clock].now

\* elapsed: () => clock.now - baseTime
elapsed(x) == Minus(clocks[x.clock].now, x.baseTime)

\* the model goes no further than MaxElapsed past the clock's start
WithinBound(k, ms) ==
    IsNaN(Plus(clocks[k].now, ms)) \/ Plus(clocks[k].now, ms) <= clocks[k].start + MaxElapsed

\* the model starts no flush on timers that are past MaxElapsed already
FlushWithinBound(k) ==
    /\ WithinBound(k, 0)
    /\ \A i \in 1..Len(clocks[k].timers) :
          \/ IsNaN(clocks[k].timers[i].callAt)
          \/ clocks[k].timers[i].callAt <= clocks[k].start + MaxElapsed

\* const ms = parseDuration(duration); await clock.tickAsync(ms): a duration that
\* does not parse throws before the clock is touched; tickAsync returns a promise
\* and does its work in macrotasks
CallTickAsync(name, x, duration) ==
    /\ op.kind = "none"
    /\ LET r == parseDuration(duration)
       IN  IF ~r.ok
           THEN /\ last' = [op |-> name, res |-> r.err, text |-> r.text]
                /\ UNCHANGED op
           ELSE /\ WithinBound(x.clock, r.ms)
                /\ op' = NewOp("tick", name, x.clock, r.ms)
                /\ last' = Outcome(name, "pending")
    /\ UNCHANGED <<ctl, clocks, globalClock, globalDate, ctxs, probes>>

\* advance: async (duration) => ...
CtxAdvance(x, duration) == CallTickAsync("advance", x, duration)

\* a tick that advances by 1 whatever it is given
CtxTickOfOne(x, duration) == CallTickAsync("tick", x, Num(1))

\* tick: async (duration) => ...
CtxTick(x, duration) == CallTickAsync("tick", x, duration)

\* doTickInner, one macrotask of tickAsync on clock k of cs, o being the promise:
\* the first timer in [tickFrom, tickTo] runs and the next macrotask carries on;
\* with no timer left in the range the clock is moved to tickTo and the promise
\* settles, rejected when a callback threw
DoTickInner(cs, o) ==
    LET k == o.clock
        i == firstTimerInRange(cs[k], o.tickFrom, o.tickTo)
        t == cs[k].timers[i]
    IN  IF i # 0
        THEN /\ clocks' = FireTimer(cs, k, i)
             /\ probes' = CountFire(cs, k, i)
             /\ op' = [o EXCEPT !.started = TRUE, !.tickFrom = t.callAt,
                                !.exc = @ \/ t.cb = "throw",
                                !.fired = TRUE, !.lastFired = t.callAt,
                                !.chain = @ \/ t.cb = "chain0"]
             /\ UNCHANGED last
        ELSE /\ clocks' = [cs EXCEPT ![k].duringTick = FALSE, ![k].now = o.tickTo,
                                     ![k].adv = Plus(@, o.ms)]
             /\ probes' = probes
             /\ op' = Idle
             /\ last' = Outcome(o.name, IF o.exc THEN "callback error" ELSE "ok")

\* a tickAsync that takes a negative duration
NegativeTickAllowed(ms) == FALSE

\* tickAsync rejects a negative duration
NegativeTick(ms) == Lt(ms, 0)

\* doTick, the first macrotask of tickAsync(ms)
DoTick ==
    /\ op.kind = "tick"
    /\ ~op.started
    /\ IF NegativeTick(op.ms)
       THEN /\ op' = Idle
            /\ last' = Outcome(op.name, "TypeError: Negative ticks are not supported")
            /\ UNCHANGED <<clocks, probes>>
       ELSE DoTickInner(
                [clocks EXCEPT ![op.clock].duringTick = TRUE,
                               ![op.clock].plain = @ /\ ~IsNaN(op.ms)],
                [op EXCEPT !.tickFrom = clocks[op.clock].now,
                           !.tickTo = Plus(clocks[op.clock].now, op.ms)])
    /\ UNCHANGED <<ctl, globalClock, globalDate, ctxs>>

\* nextPromiseTick, each later macrotask of tickAsync
NextPromiseTick ==
    /\ op.kind = "tick"
    /\ op.started
    /\ DoTickInner(clocks, op)
    /\ UNCHANGED <<ctl, globalClock, globalDate, ctxs>>

\* flush: async () => { await clock.runAllAsync() }
CtxFlush(x) ==
    /\ op.kind = "none"
    /\ FlushWithinBound(x.clock)
    /\ op' = NewOp("runAll", "flush", x.clock, 0)
    /\ clocks' = [clocks EXCEPT ![x.clock].plain = FALSE]
    /\ last' = Outcome("flush", "pending")
    /\ UNCHANGED <<ctl, globalClock, globalDate, ctxs, probes>>

\* a limit that lets one timer more run
LoopLimitPassed(i) == i > LoopLimit

\* if (i < clock.loopLimit) ... else reject
LoopLimitReached(i) == i >= LoopLimit

\* one macrotask of runAllAsync: with a timer left and fewer than loopLimit timers
\* run, clock.next() runs the first timer (duringTick is true while it runs); a
\* callback that throws rejects the promise at once
RunAllStep ==
    /\ op.kind = "runAll"
    /\ LET k == op.clock
           i == firstTimer(clocks[k])
           t == clocks[k].timers[i]
           during == [clocks EXCEPT ![k].duringTick = TRUE]
       IN  IF LoopLimitReached(op.i)
           THEN /\ op' = Idle
                /\ last' = Outcome("flush", "Error: Aborting after running loopLimit timers")
                /\ UNCHANGED <<clocks, probes>>
           ELSE IF Len(clocks[k].timers) = 0
           THEN /\ op' = Idle
                /\ last' = Outcome("flush", "ok")
                /\ UNCHANGED <<clocks, probes>>
           ELSE /\ clocks' = [FireTimer(during, k, i) EXCEPT ![k].duringTick = FALSE]
                /\ probes' = CountFire(during, k, i)
                /\ IF t.cb = "throw"
                   THEN /\ op' = Idle
                        /\ last' = Outcome("flush", "callback error")
                   ELSE /\ op' = [op EXCEPT !.i = @ + 1, !.fired = TRUE,
                                            !.lastFired = t.callAt,
                                            !.chain = @ \/ t.cb = "chain0"]
                        /\ UNCHANGED last
    /\ UNCHANGED <<ctl, globalClock, globalDate, ctxs>>

----------------------------------------------------------------------------
(* transformResponseTimestamps *)

\* what a call gives its caller: the string it returns, or the error it throws
Returned(out) == [res |-> "ok", out |-> out]
Threw(err) == [res |-> err, out |-> <<>>]

\* new Date(original.getTime() + delta), original being new Date(text)
Adjusted(text, delta) == AddMs(DateParse(text), delta)

\* the position of the first match of the pattern in s at or after i; 0 when
\* there is none
NextMatch(s, i) ==
    LET starts == { j \in i..Len(s) : IsoMatchLen(s, j) > 0 }
    IN  IF starts = {} THEN 0
        ELSE CHOOSE j \in starts : \A k \in starts : j <= k

\* body.replace(isoTimestampRegex, ...) from position i on: each match, found from
\* left to right, is replaced by adjusted.toISOString(), which throws a RangeError
\* for an Invalid Date; the text between the matches is kept
RECURSIVE ReplaceFrom(_, _, _)
ReplaceFrom(s, i, delta) ==
    LET j == NextMatch(s, i)
        match == SubSeq(s, j, j + IsoMatchLen(s, j) - 1)
        rest == ReplaceFrom(s, j + IsoMatchLen(s, j), delta)
    IN  IF j = 0 THEN [thrown |-> FALSE, out |-> SubSeq(s, i, Len(s))]
        ELSE IF Adjusted(match, delta).nan THEN [thrown |-> TRUE, out |-> <<>>]
        ELSE [thrown |-> rest.thrown,
              out |-> SubSeq(s, i, j - 1) \o toISOString(Adjusted(match, delta))
                        \o rest.out]

\* the simple regex replacement for all timestamps
ReplaceTimestamps(body, delta) ==
    LET replaced == ReplaceFrom(body, 1, delta)
    IN  IF replaced.thrown THEN Threw("RangeError: Invalid time value")
        ELSE Returned(replaced.out)

\* /^\d{4}-\d{2}-\d{2}T\d{2}:\d{2}:\d{2}(?:\.\d{3})?Z$/.test(s)
IsIsoTimestamp(s) == Len(s) > 0 /\ IsoMatchLen(s, 1) = Len(s)

\* currentKey && excludeKeys.includes(currentKey); currentKey is <<>> when
\* undefined and <<key>> otherwise, and the empty string is falsy
IsExcluded(currentKey, excludeKeys) ==
    /\ currentKey # <<>>
    /\ Len(currentKey[1]) > 0
    /\ \E k \in 1..Len(excludeKeys) : excludeKeys[k] = currentKey[1]

\* what stands for the walk when toISOString threw in it
Thrown == JText("thrown", <<>>)

\* transformObjectTimestamps(obj, delta, excludeKeys, currentKey): the items of an
\* array are walked without a key, the values of an object each with its key
\* a walk that hands the key of an array down to its items
ItemKeyOfArray(currentKey) == currentKey

\* obj.map((item) => transformObjectTimestamps(item, delta, excludeKeys)): the
\* items of an array are walked with no currentKey, whatever the key of the array
ItemKey(currentKey) == <<>>

RECURSIVE transformObjectTimestamps(_, _, _, _)
transformObjectTimestamps(obj, delta, excludeKeys, currentKey) ==
    IF obj.t = "string"
    THEN IF IsExcluded(currentKey, excludeKeys) THEN obj
         ELSE IF IsIsoTimestamp(obj.s)
              THEN IF Adjusted(obj.s, delta).nan THEN Thrown
                   ELSE JText("string", toISOString(Adjusted(obj.s, delta)))
         ELSE obj
    ELSE IF obj.t = "array"
    THEN LET items == [k \in 1..Len(obj.items) |->
                          transformObjectTimestamps(obj.items[k], delta, excludeKeys,
                                                    ItemKey(currentKey))]
         IN  IF \E k \in 1..Len(items) : items[k].t = "thrown" THEN Thrown
             ELSE JItems("array", items)
    ELSE IF obj.t = "object"
    THEN LET items == [k \in 1..Len(obj.items) |->
                          [key |-> obj.items[k].key,
                           value |-> transformObjectTimestamps(
                                         obj.items[k].value, delta, excludeKeys,
                                         <<obj.items[k].key>>)]]
         IN  IF \E k \in 1..Len(items) : items[k].value.t = "thrown" THEN Thrown
             ELSE JItems("object", items)
    ELSE obj

\* a controller that transforms although transformResponses.enabled is false
OffWhenUninstalled(c) == ctl[c].clock = NoClock

\* !this.clock || this.config.transformResponses?.enabled === false
TransformOff(c) == ctl[c].clock = NoClock \/ ~ctl[c].transformResponses.enabled

\* a transformation that goes on with a delta of zero
NeverUnchanged(delta) == FALSE

\* delta === 0
NoTimePassed(delta) == delta = 0

\* a delta of the capture time minus the clock's time
DeltaReversed(c, entryRecordedTime) ==
    Minus(entryRecordedTime, clocks[ctl[c].clock].now)

\* const delta = this.clock.now - entryRecordedTime.getTime()
Delta(c, entryRecordedTime) == Minus(clocks[ctl[c].clock].now, entryRecordedTime)

\* the try block: JSON.parse, the walk and JSON.stringify; ok is false when one of
\* them threw, which the catch swallows
TransformParsed(body, delta, excludeKeys) ==
    LET parsed == JSONParse(body)
        transformed == transformObjectTimestamps(parsed.value, delta, excludeKeys, <<>>)
    IN  IF parsed.ok /\ transformed.t # "thrown"
        THEN [ok |-> TRUE, out |-> JSONStringify(transformed)]
        ELSE [ok |-> FALSE, out |-> <<>>]

\* transformResponseTimestamps(body, entryRecordedTime) of controller c;
\* entryRecordedTime is given by its time value
transformResponseTimestamps(c, body, entryRecordedTime) ==
    IF TransformOff(c) THEN Returned(body)
    ELSE LET delta == Delta(c, entryRecordedTime)
             excludeKeys == ctl[c].transformResponses.excludeKeys
             tried == TransformParsed(body, delta, excludeKeys)
         IN  IF NoTimePassed(delta) THEN Returned(body)
             ELSE IF Len(excludeKeys) > 0 /\ tried.ok THEN Returned(tried.out)
             ELSE ReplaceTimestamps(body, delta)

\* res.body = timeController.transformResponseTimestamps(res.body,
\* new Date(entry.startedDateTime)): a response is replayed. History: last keeps
\* the body and the capture time given and the body returned.
TransformResponse(c, body, entryRecordedTime) ==
    /\ \E given \in { transformResponseTimestamps(c, body, entryRecordedTime) } :
          last' = [op |-> "transformResponseTimestamps", res |-> given.res,
                   body |-> body, at |-> entryRecordedTime, out |-> given.out]
    /\ UNCHANGED <<ctl, clocks, globalClock, globalDate, ctxs, op, probes>>

----------------------------------------------------------------------------
(* setupNetworkRecorder *)

\* const isRealMode = options.mode === 'record' || process.env.REAL_APIS === 'true'
isRealMode(r) == r.options.mode = "record" \/ r.realApis

\* const mode = options.mode ?? (isRealMode ? 'record' : 'replay')
mode(r) ==
    IF r.options.mode # "undefined" THEN r.options.mode
    ELSE IF isRealMode(r) THEN "record" ELSE "replay"

\* setupNetworkRecorder(options), with REAL_APIS as the environment has it
SetupNetworkRecorder(options, realApis) ==
    /\ ~recorder.made
    /\ recorder' = [recorder EXCEPT !.made = TRUE, !.options = options,
                                    !.realApis = realApis]
    /\ last' = Outcome("setupNetworkRecorder", "ok")
    /\ UNCHANGED <<ctl, clocks, globalClock, globalDate, ctxs, op, probes, files, test, runner>>

\* loadHar(polly.recordingId): the entries of recording.har, <<>> for a recording
\* without entries and when there is no file
loadHar == IF files.har.exists THEN files.har.entries ELSE <<>>

\* timeController.install(...) of start() does not throw
InstallSucceeds(c) == ~AlreadyInstalled(c) /\ ~DateIsFake

\* start(): polly is created and the beforePersist hook set; with timeControl and
\* not in real mode, a recording with entries gives harEntries, and the
\* startedDateTime of its first entry the time a new TimeController is installed
\* at; the beforeResponse hook is set once install has returned
Start ==
    /\ recorder.made
    /\ ~recorder.stopping
    /\ IF /\ recorder.options.timeControl
          /\ ~isRealMode(recorder)
          /\ Len(loadHar) > 0
       THEN /\ recorder.controllers + 1 \in Controllers
            /\ Install(recorder.controllers + 1, loadHar[1].startedDateTime)
            /\ recorder' = [recorder EXCEPT
                              !.polly = TRUE,
                              !.harEntries = loadHar,
                              !.timeController = recorder.controllers + 1,
                              !.controllers = recorder.controllers + 1,
                              !.hooked = InstallSucceeds(recorder.controllers + 1)]
       ELSE /\ recorder' = [recorder EXCEPT !.polly = TRUE, !.hooked = FALSE]
            /\ last' = Outcome("start", "ok")
            /\ UNCHANGED <<ctl, clocks, globalClock, globalDate, ctxs, op, probes>>
    /\ UNCHANGED <<files, test, runner>>

\* stop(), up to its first await: the time controller is uninstalled and
\* forgotten, harEntries emptied
Stop ==
    /\ recorder.made
    /\ ~recorder.stopping
    /\ IF recorder.timeController # 0
       THEN Uninstall(recorder.timeController)
       ELSE /\ last' = Outcome("stop", "ok")
            /\ UNCHANGED <<ctl, clocks, globalClock, globalDate, ctxs, op, probes>>
    /\ recorder' = [recorder EXCEPT !.timeController = 0, !.harEntries = <<>>,
                                    !.stopping = recorder.polly]
    /\ UNCHANGED <<files, test, runner>>

DEFAULT_HEADERS_TO_REDACT ==
    << <<"x", "-", "a", "p", "i", "-", "k", "e", "y">>,
       <<"a", "u", "t", "h", "o", "r", "i", "z", "a", "t", "i", "o", "n">>,
       <<"a", "p", "i", "-", "k", "e", "y">>,
       <<"a", "n", "t", "h", "r", "o", "p", "i", "c", "-", "a", "p", "i", "-", "k", "e", "y">>,
       <<"o", "p", "e", "n", "a", "i", "-", "a", "p", "i", "-", "k", "e", "y">>,
       <<"b", "e", "a", "r", "e", "r">> >>

\* const headersToRedact = options.headersToRedact ?? DEFAULT_HEADERS_TO_REDACT
headersToRedact(r) ==
    IF r.options.redactDefault THEN DEFAULT_HEADERS_TO_REDACT ELSE r.options.headersToRedact

\* s.includes(h)
Includes(s, h) == \E i \in 0..(Len(s) - Len(h)) : SubSeq(s, i + 1, i + Len(h)) = h

\* headersToRedact.some(h => name.toLowerCase().includes(h.toLowerCase()))
SomeIncluded(name, list) ==
    \E k \in 1..Len(list) : Includes(ToLowerCase(name), ToLowerCase(list[k]))

\* one pass of the beforePersist hook over an array of headers
RedactHeaders(headers, list) ==
    [i \in 1..Len(headers) |->
        IF SomeIncluded(headers[i].name, list)
        THEN [headers[i] EXCEPT !.value = "[REDACTED]"]
        ELSE headers[i]]

\* server.any().on('beforePersist', (_req, recording) => ...)
beforePersist(recording, list) ==
    [recording EXCEPT !.requestHeaders = RedactHeaders(@, list),
                      !.responseHeaders = RedactHeaders(@, list)]

\* the test code makes a request while polly records: the request goes to the
\* real API and polly keeps it, with its response, until it persists
Fetch(recording) ==
    /\ recorder.polly /\ ~recorder.stopping
    /\ mode(recorder) = "record"
    /\ Len(files.har.entries) + Len(recorder.recorded) < MaxRecorded
    /\ recorder' = [recorder EXCEPT !.recorded = Append(@, recording)]
    /\ last' = Outcome("fetch", "ok")
    /\ UNCHANGED <<ctl, clocks, globalClock, globalDate, ctxs, op, probes, files, test, runner>>

\* stop(), the rest: await polly.flush(), polly.stop(), polly.disconnect();
\* polly = null. polly.stop() persists what was recorded: each recording goes
\* through the beforePersist hook and then to the recording file
StopPolly ==
    /\ recorder.stopping
    /\ recorder' = [recorder EXCEPT !.polly = FALSE, !.hooked = FALSE, !.stopping = FALSE,
                                    !.recorded = <<>>]
    /\ files' = IF Len(recorder.recorded) = 0 THEN files
                ELSE [files EXCEPT !.har =
                        [exists |-> TRUE,
                         entries |-> @.entries \o
                            [i \in 1..Len(recorder.recorded) |->
                                beforePersist(recorder.recorded[i], headersToRedact(recorder))]]]
    /\ last' = Outcome("stop", "ok")
    /\ UNCHANGED <<ctl, clocks, globalClock, globalDate, ctxs, op, probes, test, runner>>

\* getTimeContext(): timeController?.getContext() ?? null
GetTimeContext ==
    /\ recorder.made
    /\ IF recorder.timeController # 0
       THEN GetContext(recorder.timeController)
       ELSE /\ last' = Outcome("getTimeContext", "null")
            /\ UNCHANGED <<ctl, clocks, globalClock, globalDate, ctxs, op, probes>>
    /\ UNCHANGED world

\* findEntryForRequest(method, url): harEntries.find(...), the first entry with
\* this method and url; 0 when there is none
findEntryForRequest(method, url) ==
    LET found == { i \in 1..Len(recorder.harEntries) :
                      /\ recorder.harEntries[i].method = method
                      /\ recorder.harEntries[i].url = url }
    IN  IF found = {} THEN 0 ELSE CHOOSE i \in found : \A j \in found : i <= j

\* the beforeResponse hook, when polly answers a request from entry i of the
\* recording (req has the method and url of that entry, res.body is its text):
\* res.body = timeController.transformResponseTimestamps(res.body,
\* new Date(entry.startedDateTime)) for the entry that findEntryForRequest gives.
\* History: last keeps the entry replayed, the entry found and both bodies.
BeforeResponse(i) ==
    /\ recorder.polly /\ recorder.hooked
    /\ mode(recorder) = "replay"
    /\ i \in 1..Len(files.har.entries)
    /\ LET req == files.har.entries[i]
           entry == findEntryForRequest(req.method, req.url)
           tc == recorder.timeController
       IN  IF tc # 0 /\ Len(req.text) > 0 /\ entry # 0
           THEN \E given \in { transformResponseTimestamps(
                                   tc, req.text,
                                   DateGetTime(recorder.harEntries[entry].startedDateTime)) } :
                   last' = [op |-> "beforeResponse", res |-> given.res, replayed |-> i,
                            found |-> entry, body |-> req.text, out |-> given.out]
           ELSE last' = [op |-> "beforeResponse", res |-> "ok", replayed |-> i,
                         found |-> 0, body |-> req.text, out |-> req.text]
    /\ UNCHANGED <<ctl, clocks, globalClock, globalDate, ctxs, op, probes, world>>

----------------------------------------------------------------------------
(* SnapshotManager and pollyTest *)

\* save(name, data): mkdir, then writeFile(path, JSON.stringify(data, null, 2))
save(store, name, data) == [store EXCEPT ![name] = [exists |-> TRUE, json |-> data]]

\* load(name): null if the file does not exist, else JSON.parse of its content
load(store, name) == IF store[name].exists THEN store[name].json ELSE "null"

\* the callback pollyTest hands to test(): const recorder =
\* setupNetworkRecorder({recordingName, recordingsDir, headersToRedact,
\* bodyNormalizer}), up to the call of recorder.start()
PollyTest(globalOptions, realApis) ==
    /\ test.phase = "none"
    /\ ~recorder.made
    /\ recorder' = [recorder EXCEPT
                      !.made = TRUE,
                      !.realApis = realApis,
                      !.options = [mode |-> "undefined", timeControl |-> FALSE,
                                   headersToRedact |-> globalOptions.headersToRedact,
                                   redactDefault |-> globalOptions.redactDefault]]
    /\ test' = [test EXCEPT !.phase = "start"]
    /\ last' = Outcome("pollyTest", "pending")
    /\ UNCHANGED <<ctl, clocks, globalClock, globalDate, ctxs, op, probes, files, runner>>

\* await recorder.start(), which is outside the try
AwaitStart ==
    /\ test.phase = "start"
    /\ Start

\* start() has resolved: const isRealMode = recorder.isRealMode(), the context is
\* built and fn(context) is called
CallFn ==
    /\ test.phase = "start"
    /\ recorder.polly
    /\ test' = [test EXCEPT !.phase = "fn", !.isRealMode = isRealMode(recorder)]
    /\ last' = Outcome("fn", "pending")
    /\ UNCHANGED <<ctl, clocks, globalClock, globalDate, ctxs, op, probes, recorder, files, runner>>

\* a snapshot that saves whatever the mode
SavesAlways(t) == TRUE

\* if (isRealMode)
SavesSnapshot(t) == t.isRealMode

\* snapshot: async (data) => { if (isRealMode) await snapshotManager.save(snapshotName, data) }
Snapshot(data) ==
    /\ test.phase = "fn"
    /\ files' = IF SavesSnapshot(test)
                THEN [files EXCEPT !.snapshot = save(@, ThisSnapshot, data)]
                ELSE files
    /\ last' = [op |-> "snapshot", res |-> "ok", data |-> data]
    /\ UNCHANGED <<ctl, clocks, globalClock, globalDate, ctxs, op, probes, recorder, test, runner>>

\* loadSnapshot: async () => snapshotManager.load(snapshotName)
LoadSnapshot ==
    /\ test.phase = "fn"
    /\ last' = [op |-> "loadSnapshot", res |-> "ok", data |-> load(files.snapshot, ThisSnapshot)]
    /\ UNCHANGED <<ctl, clocks, globalClock, globalDate, ctxs, op, probes, world>>

\* a request of the test function
FnFetch(recording) ==
    /\ test.phase = "fn"
    /\ Fetch(recording)

\* a pollyTest without the finally: a test function that throws ends the test
FnThrowsOut == "done"

\* try { await fn(context) } finally { ... }: fn returns or throws, and the
\* finally block is entered either way
FnThrowsTo == "finally"

FnSettles(threw) ==
    /\ test.phase = "fn"
    /\ test' = [test EXCEPT !.phase = IF threw THEN FnThrowsTo ELSE "finally", !.threw = threw]
    /\ last' = Outcome("fn", IF threw THEN "error" ELSE "ok")
    /\ UNCHANGED <<ctl, clocks, globalClock, globalDate, ctxs, op, probes, recorder, files, runner>>

\* finally { await recorder.stop() }: the call of stop(), up to its first await
FinallyStop ==
    /\ test.phase = "finally"
    /\ recorder.polly
    /\ Stop

\* stop() has resolved: the test callback returns, or rethrows what fn threw
TestEnds ==
    /\ test.phase = "finally"
    /\ ~recorder.polly
    /\ test' = [test EXCEPT !.phase = "done"]
    /\ last' = Outcome("pollyTest", IF test.threw THEN "error" ELSE "ok")
    /\ UNCHANGED <<ctl, clocks, globalClock, globalDate, ctxs, op, probes, recorder, files, runner>>

----------------------------------------------------------------------------
(* The pollytest command: parseArgs, runTests and runCommand *)

\* the arguments of the command line that start with '-'
Dashed == {"--real", "-r", "--recorded", "--replay", "--help", "-h", "--watch"}

\* arg.startsWith('-')
StartsWithDash(arg) == arg \in Dashed

\* const options: RunnerOptions = {}
NoOptions == [mode |-> "undefined", testCommand |-> "undefined", exit |-> FALSE]

\* parseArgs(args): the loop over the arguments from the i-th on; --help prints
\* the help and ends the process (exit)
RECURSIVE parseArgsFrom(_, _, _)
parseArgsFrom(args, i, options) ==
    IF i > Len(args) THEN options
    ELSE IF args[i] \in {"--real", "-r"}
         THEN parseArgsFrom(args, i + 1, [options EXCEPT !.mode = "real"])
    ELSE IF args[i] \in {"--recorded", "--replay"}
         THEN parseArgsFrom(args, i + 1, [options EXCEPT !.mode = "recorded"])
    ELSE IF args[i] \in {"--help", "-h"}
         THEN [options EXCEPT !.exit = TRUE]
    ELSE IF ~StartsWithDash(args[i])
         THEN parseArgsFrom(args, i + 1, [options EXCEPT !.testCommand = args[i]])
    ELSE parseArgsFrom(args, i + 1, options)

parseArgs(args) == parseArgsFrom(args, 1, NoOptions)

\* getDefaultTestCommand(), in a directory with no lock file
getDefaultTestCommand == "npm test"

\* const realModeEnvVar = mergedOptions.realModeEnvVar ?? 'REAL_APIS': cli.ts calls
\* runTests() with no options and parseArgs sets no realModeEnvVar
realModeEnvVar == "REAL_APIS"

\* runTests(), as cli.ts calls it, up to the mode: the arguments are parsed and
\* the mode is the one they give; with none the mode is asked for
RunTests(args) ==
    /\ runner.phase = "none"
    /\ LET mergedOptions == parseArgs(args) IN
          runner' = [runner EXCEPT
                       !.phase = IF mergedOptions.exit THEN "exited"
                                 ELSE IF mergedOptions.mode # "undefined" THEN "mode"
                                 ELSE "prompt",
                       !.mode = mergedOptions.mode,
                       !.testCommand = IF mergedOptions.testCommand # "undefined"
                                       THEN mergedOptions.testCommand
                                       ELSE getDefaultTestCommand]
    /\ last' = [op |-> "runTests", res |-> "pending", args |-> args]
    /\ UNCHANGED <<ctl, clocks, globalClock, globalDate, ctxs, op, probes,
                   recorder, files, test>>

\* promptMode(rl): const choice = answer.trim() || '1'; '2' is real, anything else
\* recorded
PromptMode(answer) ==
    /\ runner.phase = "prompt"
    /\ LET choice == IF answer = "" THEN "1" ELSE answer IN
          runner' = [runner EXCEPT !.phase = "mode",
                                   !.mode = IF choice = "2" THEN "real" ELSE "recorded"]
    /\ last' = [op |-> "promptMode", res |-> "ok", args |-> <<answer>>]
    /\ UNCHANGED <<ctl, clocks, globalClock, globalDate, ctxs, op, probes,
                   recorder, files, test>>

\* const env = mode === 'real' ? { [realModeEnvVar]: 'true' } : {}
EnvOfMode(runnerMode) ==
    IF runnerMode = "real" THEN [name \in {realModeEnvVar} |-> "true"]
    ELSE [name \in {} |-> "true"]

\* { ...process.env, ...env }
SpreadEnv(processEnv, env) ==
    [name \in EnvNames |-> IF name \in DOMAIN env THEN env[name] ELSE processEnv[name]]

\* runCommand(testCommand, [], env): the test command is spawned with the
\* environment of the runner and env over it
RunCommand ==
    /\ runner.phase = "mode"
    /\ runner' = [runner EXCEPT !.phase = "spawned",
                                !.child = SpreadEnv(runner.env, EnvOfMode(runner.mode))]
    /\ last' = Outcome("runCommand", "pending")
    /\ UNCHANGED <<ctl, clocks, globalClock, globalDate, ctxs, op, probes,
                   recorder, files, test>>

\* process.env.REAL_APIS === 'true' in the spawned test command
ChildRealApis == runner.child["REAL_APIS"] = "true"

\* a pollyTest of the spawned test command starts
ChildPollyTest(globalOptions) ==
    /\ runner.phase = "spawned"
    /\ PollyTest(globalOptions, ChildRealApis)

\* child.on('close', (code) => resolve(code || 0)): the test command ends, with a
\* failure when a test threw
ChildCloses ==
    /\ runner.phase = "spawned"
    /\ test.phase = "done"
    /\ runner' = [runner EXCEPT !.phase = "closed",
                                !.exitCode = IF test.threw THEN 1 ELSE 0]
    /\ last' = Outcome("runCommand", IF test.threw THEN "failed" ELSE "ok")
    /\ UNCHANGED <<ctl, clocks, globalClock, globalDate, ctxs, op, probes,
                   recorder, files, test>>

----------------------------------------------------------------------------
(* The test code and the world *)

\* setTimeout(cb, delay) of the test code, with the fakes installed (DEFAULT_TO_FAKE
\* has setTimeout): the timer goes to the installed clock
SetTimeout(delay, cb) ==
    /\ FakesInstalled
    /\ Len(probes) < MaxScheduled
    /\ clocks' = [clocks EXCEPT ![globalClock] = AddTimer(@, delay, 0, cb, Len(probes) + 1)]
    /\ probes' = Append(probes, NewProbe(clocks[globalClock], delay, 0))
    /\ last' = Outcome("setTimeout", "ok")
    /\ UNCHANGED <<ctl, globalClock, globalDate, ctxs, op>>

\* setInterval(cb, period) of the test code, with the fakes installed
SetInterval(period, cb) ==
    /\ FakesInstalled
    /\ Len(probes) < MaxScheduled
    /\ clocks' = [clocks EXCEPT ![globalClock] = AddTimer(@, period, period, cb, Len(probes) + 1)]
    /\ probes' = Append(probes, NewProbe(clocks[globalClock], period, period))
    /\ last' = Outcome("setInterval", "ok")
    /\ UNCHANGED <<ctl, globalClock, globalDate, ctxs, op>>

\* a clock installed to follow real time
AdvancingTime == TRUE

\* shouldAdvanceTime: false
ShouldAdvanceTime == FALSE

\* real time passes: with shouldAdvanceTime the installed clock would follow it
RealTimePasses ==
    /\ clocks' = IF ShouldAdvanceTime /\ FakesInstalled
                 THEN [clocks EXCEPT ![globalClock].now = Plus(@, 1)]
                 ELSE clocks
    /\ UNCHANGED <<ctl, globalClock, globalDate, ctxs, op, last, probes>>

----------------------------------------------------------------------------

\* the calls of a test that uses two controllers: the lifecycle, the queries,
\* advance and tick, a timer
LifeDurations == { Num(1), Str(<<"2", "x">>) }

Next ==
    \/ \E c \in Controllers, arg \in InstallArgs : Install(c, arg) /\ UNCHANGED world
    \/ \E c \in Controllers : Uninstall(c) /\ UNCHANGED world
    \/ \E c \in Controllers : GetContext(c) /\ UNCHANGED world
    \/ \E x \in ctxs, d \in LifeDurations : CtxAdvance(x, d) /\ UNCHANGED world
    \/ DoTick /\ UNCHANGED world
    \/ NextPromiseTick /\ UNCHANGED world
    \/ probes = <<>> /\ SetTimeout(1, "noop") /\ UNCHANGED world
    \/ RealTimePasses /\ UNCHANGED world

Spec == Init /\ [][Next]_vars

\* the calls of a test that uses one controller and the timers
TickArgs == { Num(1), Str(<<"2", "x">>) }

TimerCalls ==
    { <<0, "noop">>, <<2, "noop">>, <<1, "sched0">>, <<1, "throw">>, <<0, "chain0">> }

TimerInstallArgs == { [form |-> "iso", sec |-> 0, frac |-> 20] }

TimerNext ==
    \/ \E arg \in TimerInstallArgs : Len(clocks) = 0 /\ Install(1, arg) /\ UNCHANGED world
    \/ Uninstall(1) /\ UNCHANGED world
    \/ GetContext(1) /\ UNCHANGED world
    \/ \E x \in ctxs, d \in DurationArgs : CtxAdvance(x, d) /\ UNCHANGED world
    \/ \E x \in ctxs, d \in TickArgs : CtxTick(x, d) /\ UNCHANGED world
    \/ \E x \in ctxs : CtxFlush(x) /\ UNCHANGED world
    \/ DoTick /\ UNCHANGED world
    \/ NextPromiseTick /\ UNCHANGED world
    \/ RunAllStep /\ UNCHANGED world
    \/ \E call \in TimerCalls : SetTimeout(call[1], call[2]) /\ UNCHANGED world
    \/ \E p \in Periods : SetInterval(p, "noop") /\ UNCHANGED world
    \/ RealTimePasses /\ UNCHANGED world

\* its controller has the default configuration
TimerInit == Init /\ ctl[1].toFake = DEFAULT_TO_FAKE

TimerSpec == TimerInit /\ [][TimerNext]_vars

\* the calls of a test that schedules timers, advances and flushes; tickAsync and
\* runAllAsync hand each of their macrotasks to the real setTimeout: the event
\* loop runs it
FlushNext ==
    \/ \E arg \in TimerInstallArgs : Len(clocks) = 0 /\ Install(1, arg) /\ UNCHANGED world
    \/ Uninstall(1) /\ UNCHANGED world
    \/ GetContext(1) /\ UNCHANGED world
    \/ \E x \in ctxs : CtxAdvance(x, Num(1)) /\ UNCHANGED world
    \/ \E x \in ctxs : CtxFlush(x) /\ UNCHANGED world
    \/ DoTick /\ UNCHANGED world
    \/ NextPromiseTick /\ UNCHANGED world
    \/ RunAllStep /\ UNCHANGED world
    \/ \E call \in TimerCalls : SetTimeout(call[1], call[2]) /\ UNCHANGED world
    \/ \E p \in Periods : SetInterval(p, "noop") /\ UNCHANGED world
    \/ RealTimePasses /\ UNCHANGED world

FlushSpec == TimerInit /\ [][FlushNext]_vars

TimerFair ==
    /\ FlushSpec
    /\ WF_vars(DoTick /\ UNCHANGED world)
    /\ WF_vars(NextPromiseTick /\ UNCHANGED world)
    /\ WF_vars(RunAllStep /\ UNCHANGED world)

\* the calls of a test that advances the clock with advance and with tick alike
AliasDurations == { Num(0 - 1), Num(1), Str(<<"2", "x">>) }

AliasCalls == { <<1, "noop">>, <<1, "sched0">>, <<1, "throw">> }

AliasNext ==
    \/ \E arg \in TimerInstallArgs : Len(clocks) = 0 /\ Install(1, arg) /\ UNCHANGED world
    \/ Uninstall(1) /\ UNCHANGED world
    \/ GetContext(1) /\ UNCHANGED world
    \/ \E x \in ctxs, d \in AliasDurations : CtxAdvance(x, d) /\ UNCHANGED world
    \/ \E x \in ctxs, d \in AliasDurations : CtxTick(x, d) /\ UNCHANGED world
    \/ DoTick /\ UNCHANGED world
    \/ NextPromiseTick /\ UNCHANGED world
    \/ \E call \in AliasCalls : SetTimeout(call[1], call[2]) /\ UNCHANGED world
    \/ \E p \in Periods : SetInterval(p, "noop") /\ UNCHANGED world

AliasSpec == TimerInit /\ [][AliasNext]_vars

----------------------------------------------------------------------------
(* The replay of recorded responses *)

\* the timestamps of the bodies: the instant the clock is installed at (20 ms
\* after the epoch), one without milliseconds, the last millisecond of 1999, and
\* one with month 13
StampBase ==
    <<"1", "9", "7", "0", "-", "0", "1", "-", "0", "1", "T", "0", "0", ":", "0", "0",
      ":", "0", "0", ".", "0", "2", "0", "Z">>
StampPlain ==
    <<"2", "0", "2", "5", "-", "0", "1", "-", "1", "5", "T", "1", "0", ":", "0", "0",
      ":", "0", "0", "Z">>
StampEve ==
    <<"1", "9", "9", "9", "-", "1", "2", "-", "3", "1", "T", "2", "3", ":", "5", "9",
      ":", "5", "9", ".", "9", "9", "9", "Z">>
StampMonth13 ==
    <<"2", "0", "2", "5", "-", "1", "3", "-", "0", "1", "T", "0", "0", ":", "0", "0",
      ":", "0", "0", "Z">>

KeyBirthDate == <<"b", "i", "r", "t", "h", "D", "a", "t", "e">>
KeyCreatedAt == <<"c", "r", "e", "a", "t", "e", "d", "A", "t">>
KeyItems == <<"i", "t", "e", "m", "s">>
KeyEmpty == <<>>

\* "text", and "key":
Quoted(text) == <<"\"">> \o text \o <<"\"">>
Member(key) == Quoted(key) \o <<":">>

\* {"birthDate":"1970-01-01T00:00:00.020Z","createdAt":"1970-01-01T00:00:00.020Z"}
BodyExample ==
    <<"{">> \o Member(KeyBirthDate) \o Quoted(StampBase) \o <<",">>
      \o Member(KeyCreatedAt) \o Quoted(StampBase) \o <<"}">>

\* {"items":[{"birthDate":"1999-12-31T23:59:59.999Z"},"2025-01-15T10:00:00Z"],
\*  "birthDate":["2025-01-15T10:00:00Z",{"createdAt":"1999-12-31T23:59:59.999Z"}]}
BodyNested ==
    <<"{">> \o Member(KeyItems) \o <<"[", "{">> \o Member(KeyBirthDate)
      \o Quoted(StampEve) \o <<"}", ",">> \o Quoted(StampPlain) \o <<"]", ",">>
      \o Member(KeyBirthDate) \o <<"[">> \o Quoted(StampPlain) \o <<",", "{">>
      \o Member(KeyCreatedAt) \o Quoted(StampEve) \o <<"}", "]", "}">>

\* { "createdAt": "2025-01-15T10:00:00Z" }
BodySpaced ==
    <<"{", " ">> \o Member(KeyCreatedAt) \o <<" ">> \o Quoted(StampPlain) \o <<" ", "}">>

\* {"":"1970-01-01T00:00:00.020Z"}
BodyEmptyKey == <<"{">> \o Member(KeyEmpty) \o Quoted(StampBase) \o <<"}">>

\* at 1999-12-31T23:59:59.999Z
BodyText == <<"a", "t", " ">> \o StampEve

\* 2025-13-01T00:00:00Z
BodyMonth13 == StampMonth13

Bodies == { BodyExample, BodyNested, BodySpaced, BodyEmptyKey, BodyText, BodyMonth13 }

\* entry.startedDateTime of the entries: the instant the clock is installed at
\* and one a millisecond later
CaptureTimes == { 20, 21 }

\* the configurations of the controller that transforms
ResponsesConfigs ==
    { DefaultResponses,
      [enabled |-> FALSE, excludeKeys |-> <<KeyBirthDate>>],
      [enabled |-> TRUE, excludeKeys |-> <<KeyBirthDate, KeyEmpty>>] }

RewriteInit ==
    /\ \E config \in ResponsesConfigs :
          ctl = [c \in Controllers |->
                    [clock |-> NoClock, baseTime |-> 0, toFake |-> DEFAULT_TO_FAKE,
                     transformResponses |-> IF c = 1 THEN config ELSE DefaultResponses]]
    /\ clocks = <<>>
    /\ globalClock = NoClock
    /\ globalDate = NoClock
    /\ ctxs = {}
    /\ op = Idle
    /\ last = [op |-> "new", res |-> "ok"]
    /\ probes = <<>>
    /\ recorder = NoRecorder
    /\ files = NoFiles
    /\ test = NoTest
    /\ runner = NoRunner

\* the calls of a test that replays responses while it moves the clock
RewriteNext ==
    \/ \E arg \in TimerInstallArgs : Len(clocks) = 0 /\ Install(1, arg) /\ UNCHANGED world
    \/ Uninstall(1) /\ UNCHANGED world
    \/ GetContext(1) /\ UNCHANGED world
    \/ \E x \in ctxs : CtxAdvance(x, Num(1)) /\ UNCHANGED world
    \/ \E x \in ctxs : CtxFlush(x) /\ UNCHANGED world
    \/ DoTick /\ UNCHANGED world
    \/ NextPromiseTick /\ UNCHANGED world
    \/ RunAllStep /\ UNCHANGED world
    \/ SetTimeout(2, "noop") /\ UNCHANGED world
    \/ \E body \in Bodies, at \in CaptureTimes :
          TransformResponse(1, body, at) /\ UNCHANGED world

RewriteSpec == RewriteInit /\ [][RewriteNext]_vars

----------------------------------------------------------------------------
(* A recorder and its recording *)

\* recording.har: two requests with the same method and url (they differ in
\* their bodies, which polly matches requests by), captured 1 ms apart with
\* different answers, and a request with another method
HarEntries ==
    << [method |-> "POST", url |-> "/chat",
        startedDateTime |-> [form |-> "iso", sec |-> 0, frac |-> 20],
        text |-> BodyExample],
       [method |-> "POST", url |-> "/chat",
        startedDateTime |-> [form |-> "iso", sec |-> 0, frac |-> 21],
        text |-> BodyText],
       [method |-> "GET", url |-> "/chat",
        startedDateTime |-> [form |-> "iso", sec |-> 0, frac |-> 21],
        text |-> BodySpaced] >>

\* the recording a run finds: none, one without entries, one with entries
Recordings ==
    { [exists |-> FALSE, entries |-> <<>>],
      [exists |-> TRUE, entries |-> <<>>],
      [exists |-> TRUE, entries |-> HarEntries] }

\* options.mode, undefined included
ModeOptions == { "undefined", "replay", "record", "passthrough" }

\* the options a recorder is set up with; headersToRedact is left out
RecorderOptions ==
    { [mode |-> m, timeControl |-> t, headersToRedact |-> <<>>, redactDefault |-> TRUE] :
        m \in ModeOptions, t \in BOOLEAN }

RecorderInit ==
    /\ ctl = [c \in Controllers |->
                 [clock |-> NoClock, baseTime |-> 0, toFake |-> DEFAULT_TO_FAKE,
                  transformResponses |-> DefaultResponses]]
    /\ clocks = <<>>
    /\ globalClock = NoClock
    /\ globalDate = NoClock
    /\ ctxs = {}
    /\ op = Idle
    /\ last = [op |-> "new", res |-> "ok"]
    /\ probes = <<>>
    /\ recorder = NoRecorder
    /\ \E har \in Recordings : files = [NoFiles EXCEPT !.har = har]
    /\ test = NoTest
    /\ runner = NoRunner

\* the calls of a test that uses a recorder of its own, and the responses polly
\* replays to it
RecorderNext ==
    \/ \E options \in RecorderOptions, realApis \in BOOLEAN :
          SetupNetworkRecorder(options, realApis)
    \/ Start
    \/ Stop
    \/ StopPolly
    \/ GetTimeContext
    \/ \E i \in 1..Len(HarEntries) : BeforeResponse(i)
    \/ \E x \in ctxs : CtxAdvance(x, Num(1)) /\ UNCHANGED world
    \/ DoTick /\ UNCHANGED world

RecorderSpec == RecorderInit /\ [][RecorderNext]_vars

----------------------------------------------------------------------------
(* A recording session *)

HeaderAuthorization == <<"A", "u", "t", "h", "o", "r", "i", "z", "a", "t", "i", "o", "n">>
HeaderApiKey == <<"x", "-", "a", "p", "i", "-", "k", "e", "y">>
HeaderCustomAuth == <<"x", "-", "c", "u", "s", "t", "o", "m", "-", "a", "u", "t", "h">>
HeaderContentType == <<"c", "o", "n", "t", "e", "n", "t", "-", "t", "y", "p", "e">>
HeaderProxyAuthorization == <<"P", "r", "o", "x", "y", "-", "A", "u", "t", "h", "o", "r", "i", "z", "a", "t", "i", "o", "n">>

\* the requests of a test that records: one that sends a bearer token and gets an
\* API key back, one that sends the header of the README's example, one that
\* sends a proxy credential
Recorded ==
    { [method |-> "POST", url |-> "/chat",
       startedDateTime |-> [form |-> "iso", sec |-> 0, frac |-> 20], text |-> <<>>,
       requestHeaders |-> << [name |-> HeaderAuthorization, value |-> "Bearer sk-1"],
                             [name |-> HeaderContentType, value |-> "application/json"] >>,
       responseHeaders |-> << [name |-> HeaderApiKey, value |-> "key-2"] >>],
      [method |-> "GET", url |-> "/chat",
       startedDateTime |-> [form |-> "iso", sec |-> 0, frac |-> 21], text |-> <<>>,
       requestHeaders |-> << [name |-> HeaderCustomAuth, value |-> "token-3"] >>,
       responseHeaders |-> << [name |-> HeaderContentType, value |-> "text/plain"] >>],
      [method |-> "GET", url |-> "/models",
       startedDateTime |-> [form |-> "iso", sec |-> 0, frac |-> 21], text |-> <<>>,
       requestHeaders |-> << [name |-> HeaderProxyAuthorization, value |-> "Basic cHJveHk="] >>,
       responseHeaders |-> <<>>] }

\* headersToRedact: left out, the README's example, empty, and in capitals
RedactOptions ==
    { [redactDefault |-> TRUE, headersToRedact |-> <<>>],
      [redactDefault |-> FALSE, headersToRedact |-> << HeaderCustomAuth >>],
      [redactDefault |-> FALSE, headersToRedact |-> <<>>],
      [redactDefault |-> FALSE, headersToRedact |-> << <<"A", "U", "T", "H", "O", "R", "I", "Z", "A", "T", "I", "O", "N">> >>] }

RecordingOptions ==
    { [mode |-> m, timeControl |-> FALSE, headersToRedact |-> h.headersToRedact,
       redactDefault |-> h.redactDefault] :
        m \in {"undefined", "record", "replay"}, h \in RedactOptions }

\* the calls of a test that records requests into an empty recordings directory
RecordingNext ==
    \/ \E options \in RecordingOptions, realApis \in BOOLEAN :
          SetupNetworkRecorder(options, realApis)
    \/ Start
    \/ \E recording \in Recorded : Fetch(recording)
    \/ Stop
    \/ StopPolly

\* no recording is there yet
RecordingInit == RecorderInit /\ files = NoFiles

RecordingSpec == RecordingInit /\ [][RecordingNext]_vars

----------------------------------------------------------------------------
(* A pollyTest run *)

\* what a test hands to snapshot
SnapshotData == { "{\"user\":1}", "{\"user\":2}" }

\* the snapshots on disk before the test: none, or one for each name
Snapshots ==
    { [name \in SnapshotNames |-> NoSnapshot],
      [name \in SnapshotNames |-> [exists |-> TRUE, json |-> "{\"user\":1}"]] }

PollyTestInit ==
    /\ ctl = [c \in Controllers |->
                 [clock |-> NoClock, baseTime |-> 0, toFake |-> DEFAULT_TO_FAKE,
                  transformResponses |-> DefaultResponses]]
    /\ clocks = <<>>
    /\ globalClock = NoClock
    /\ globalDate = NoClock
    /\ ctxs = {}
    /\ op = Idle
    /\ last = [op |-> "new", res |-> "ok"]
    /\ probes = <<>>
    /\ recorder = NoRecorder
    /\ \E store \in Snapshots : files = [NoFiles EXCEPT !.snapshot = store]
    /\ test = NoTest
    /\ runner = NoRunner

\* one run of a pollyTest: the test function takes snapshots, loads them and makes
\* requests, then returns or throws
PollyTestNext ==
    \/ \E globalOptions \in RedactOptions, realApis \in BOOLEAN : PollyTest(globalOptions, realApis)
    \/ AwaitStart
    \/ CallFn
    \/ \E data \in SnapshotData : Snapshot(data)
    \/ LoadSnapshot
    \/ \E recording \in Recorded : FnFetch(recording)
    \/ \E threw \in BOOLEAN : FnSettles(threw)
    \/ FinallyStop
    \/ StopPolly
    \/ TestEnds

PollyTestSpec == PollyTestInit /\ [][PollyTestNext]_vars

\* stop() is called as soon as fn settles, polly.stop() resolves, and the callback
\* goes on after its await; a test function need not settle
PollyTestFair ==
    /\ PollyTestSpec
    /\ WF_vars(FinallyStop)
    /\ WF_vars(StopPolly)
    /\ WF_vars(TestEnds)

----------------------------------------------------------------------------
(* A run of the pollytest command *)

\* the command lines of the model: no flag, each flag, a test command, two flags
\* in either order, and --help
CommandLines ==
    { <<>>, <<"--real">>, <<"-r">>, <<"--recorded">>, <<"--replay">>,
      <<"pnpm test", "--real">>, <<"--recorded", "pnpm test">>,
      <<"--real", "--recorded">>, <<"--recorded", "--real">>,
      <<"--watch", "--recorded">>, <<"--help">> }

\* what is typed at the prompt
Answers == {"", "1", "2", "y"}

\* the runner starts in any environment
RunnerInit ==
    /\ ctl = [c \in Controllers |->
                 [clock |-> NoClock, baseTime |-> 0, toFake |-> DEFAULT_TO_FAKE,
                  transformResponses |-> DefaultResponses]]
    /\ clocks = <<>>
    /\ globalClock = NoClock
    /\ globalDate = NoClock
    /\ ctxs = {}
    /\ op = Idle
    /\ last = [op |-> "new", res |-> "ok"]
    /\ probes = <<>>
    /\ recorder = NoRecorder
    /\ files = NoFiles
    /\ test = NoTest
    /\ \E env \in [EnvNames -> EnvValues] : runner = [NoRunner EXCEPT !.env = env]

\* the command is run, it spawns the test command, and one pollyTest of the test
\* command runs
RunnerNext ==
    \/ \E args \in CommandLines : RunTests(args)
    \/ \E answer \in Answers : PromptMode(answer)
    \/ RunCommand
    \/ \E globalOptions \in RedactOptions : ChildPollyTest(globalOptions)
    \/ AwaitStart
    \/ CallFn
    \/ \E data \in SnapshotData : Snapshot(data)
    \/ \E recording \in Recorded : FnFetch(recording)
    \/ \E threw \in BOOLEAN : FnSettles(threw)
    \/ FinallyStop
    \/ StopPolly
    \/ TestEnds
    \/ ChildCloses

RunnerSpec == RunnerInit /\ [][RunnerNext]_vars

----------------------------------------------------------------------------
(* The sessions of one controller *)

\* a test that installs its controller, uninstalls it and installs it again at
\* any of the base times, keeps the contexts it was given, schedules timers,
\* advances, and has responses replayed
SessionNext ==
    \/ \E arg \in InstallArgs : Install(1, arg) /\ UNCHANGED world
    \/ Uninstall(1) /\ UNCHANGED world
    \/ GetContext(1) /\ UNCHANGED world
    \/ \E x \in ctxs : CtxAdvance(x, Num(1)) /\ UNCHANGED world
    \/ DoTick /\ UNCHANGED world
    \/ NextPromiseTick /\ UNCHANGED world
    \/ SetTimeout(1, "noop") /\ UNCHANGED world
    \/ \E at \in CaptureTimes : TransformResponse(1, BodyExample, at) /\ UNCHANGED world

SessionSpec == TimerInit /\ [][SessionNext]_vars

----------------------------------------------------------------------------
(* Durations *)

\* the digits of a duration: small ones, leading zeros, 2^53 and 2^53 + 1, and
\* digits whose product with a multiplier is past 2^53
DigitStrings ==
    { <<"0">>,
      <<"1">>,
      <<"2">>,
      <<"5">>,
      <<"0", "0", "7">>,
      <<"3", "0">>,
      <<"5", "0", "0">>,
      <<"2", "5">>,
      <<"1", "0", "4", "2", "4", "9", "9", "9", "2">>,
      <<"9", "0", "0", "7", "1", "9", "9", "2", "5", "4", "7", "4", "0", "9", "9", "2">>,
      <<"9", "0", "0", "7", "1", "9", "9", "2", "5", "4", "7", "4", "0", "9", "9", "3">>,
      <<"7", "2", "0", "5", "7", "5", "9", "4", "0", "3", "7", "9", "2", "9">> }

\* what stands between the digits and the unit
Spacings ==
    { <<>>,
      <<" ">>,
      <<"\t", " ">> }

\* the word after the digits: the units in some letter cases, and words that are
\* no unit
UnitTokens ==
    { <<"m", "s">>,
      <<"M", "S">>,
      <<"m", "i", "l", "l", "i", "s", "e", "c", "o", "n", "d">>,
      <<"s">>,
      <<"s", "e", "c">>,
      <<"S", "e", "c", "o", "n", "d", "s">>,
      <<"m">>,
      <<"m", "i", "n">>,
      <<"M", "I", "N", "U", "T", "E", "S">>,
      <<"h">>,
      <<"h", "r">>,
      <<"H", "o", "u", "r", "s">>,
      <<"d">>,
      <<"d", "a", "y">>,
      <<"D", "A", "Y", "S">>,
      <<"x">>,
      <<"f", "o", "r", "t", "n", "i", "g", "h", "t", "s">>,
      <<"c", "o", "n", "s", "t", "r", "u", "c", "t", "o", "r">>,
      <<"C", "o", "n", "s", "t", "r", "u", "c", "t", "o", "r">>,
      <<"_", "_", "p", "r", "o", "t", "o", "_", "_">>,
      <<"_">> }

\* strings that are not digits, spaces and one word
Malformed ==
    { <<>>,
      <<"m", "s">>,
      <<"5">>,
      <<"5", " ">>,
      <<" ", " ", "5", "m", "s">>,
      <<"5", "m", "s", " ">>,
      <<"1", ".", "5", "h">>,
      <<"-", "5", "m", "s">>,
      <<"5", " ", "m", " ", "s">>,
      <<"5", " ", "m", "i", "n", "!">>,
      <<"h", "o", "u", "r", " ", "1">> }

\* what parseDuration is given
ParseArgs ==
    { Num(0 - 1), Num(0), Num(500), Num(NaN) }
      \cup { Str(n \o sp \o u) : n \in DigitStrings, sp \in Spacings, u \in UnitTokens }
      \cup { Str(text) : text \in Malformed }

\* a test about to call parseDuration(duration), nothing else set up
ParseInit ==
    /\ ctl = [c \in Controllers |->
                [clock |-> NoClock, baseTime |-> 0, toFake |-> DEFAULT_TO_FAKE,
                 transformResponses |-> DefaultResponses]]
    /\ clocks = <<>>
    /\ globalClock = NoClock
    /\ globalDate = NoClock
    /\ ctxs = {}
    /\ op = Idle
    /\ \E duration \in ParseArgs : last = [op |-> "test", arg |-> duration]
    /\ probes = <<>>
    /\ recorder = NoRecorder
    /\ files = NoFiles
    /\ test = NoTest
    /\ runner = NoRunner

\* the call of parseDuration: what it returns or throws
Parse ==
    /\ last.op = "test"
    /\ last' = [op |-> "parseDuration", arg |-> last.arg, result |-> parseDuration(last.arg)]
    /\ UNCHANGED <<ctl, clocks, globalClock, globalDate, ctxs, op, probes, world>>

ParseNext == Parse

ParseSpec == ParseInit /\ [][ParseNext]_vars

\* the strings a test gives advance and tick: durations within the model's reach,
\* strings that do not parse and units that are none
DurationTexts ==
    { <<"1", "m", "s">>,
      <<"2", " ", "M", "S">>,
      <<"0", "s">>,
      <<>>,
      <<"m", "s">>,
      <<"5">>,
      <<"1", ".", "5", "h">>,
      <<" ", "5", "m", "s">>,
      <<"2", "x">>,
      <<"5", " ", "f", "o", "r", "t", "n", "i", "g", "h", "t", "s">>,
      <<"5", " ", "W", "e", "e", "k", "s">>,
      <<"5", " ", "c", "o", "n", "s", "t", "r", "u", "c", "t", "o", "r">>,
      <<"7", "_", "_", "p", "r", "o", "t", "o", "_", "_">> }

\* the calls of a test that advances one clock by duration strings, with timers
\* waiting
DurationNext ==
    \/ \E arg \in TimerInstallArgs : Len(clocks) = 0 /\ Install(1, arg) /\ UNCHANGED world
    \/ GetContext(1) /\ UNCHANGED world
    \/ \E x \in ctxs, text \in DurationTexts : CtxAdvance(x, Str(text)) /\ UNCHANGED world
    \/ \E x \in ctxs, text \in DurationTexts : CtxTick(x, Str(text)) /\ UNCHANGED world
    \/ DoTick /\ UNCHANGED world
    \/ NextPromiseTick /\ UNCHANGED world
    \/ \E call \in AliasCalls : SetTimeout(call[1], call[2]) /\ UNCHANGED world

DurationSpec == TimerInit /\ [][DurationNext]_vars

----------------------------------------------------------------------------
(* The lifecycle of a TimeController *)

\* C1: install on a controller that is installed throws "already installed" and
\* leaves every controller's clock and baseTime, every clock's time and timers and
\* the fakes in place as they were; an install gives a controller a clock only
\* when it has none, that is at first or after an uninstall.
ReinstallIsRefused ==
    [][\A c \in Controllers :
          /\ (isInstalled(c) /\ \E arg \in InstallArgs : Install(c, arg))
                => /\ last' = Outcome("install", "Error: TimeController already installed")
                   /\ UNCHANGED <<ctl, clocks, globalClock, globalDate, probes>>
          /\ (ctl'[c].clock # ctl[c].clock /\ ctl'[c].clock # NoClock)
                => ~isInstalled(c)
      ]_vars

\* an install was refused on a controller whose clock has advanced and has a timer
\* pending
ReinstallWasRefused ==
    /\ last = Outcome("install", "Error: TimeController already installed")
    /\ \E c \in Controllers :
          /\ isInstalled(c)
          /\ clocks[ctl[c].clock].now # ctl[c].baseTime
          /\ clocks[ctl[c].clock].timers # <<>>
          /\ \A d \in Controllers \ {c} : ~isInstalled(d)

\* C2: at most one controller of the process is installed at any time.
AtMostOneInstalled ==
    Cardinality({c \in Controllers : isInstalled(c)}) <= 1

\* the instant T that an argument of install denotes, in milliseconds since the
\* epoch
InstantOf(arg) ==
    CASE arg.form = "number" -> arg.ms
      [] arg.form = "Date" -> arg.time
      [] arg.form = "iso" -> arg.sec * 1000 + arg.frac

\* C3: right after install(T) has succeeded on a controller, isInstalled() is
\* true, now() and nowMs() of its context are the instant T denotes and elapsed()
\* is 0.
InstallFreezesAtT ==
    [][\A c \in Controllers, arg \in InstallArgs :
          (Install(c, arg) /\ last' = Outcome("install", "ok"))
            => /\ isInstalled(c)'
               /\ now(ContextOf(c))' = InstantOf(arg)
               /\ nowMs(ContextOf(c))' = InstantOf(arg)
               /\ elapsed(ContextOf(c))' = 0
      ]_vars

\* a controller was just installed at 20 while an earlier clock, advanced since,
\* exists
InstalledSecondClock ==
    /\ last = Outcome("install", "ok")
    /\ Len(clocks) = 2
    /\ clocks[1].now # clocks[1].start
    /\ \E c \in Controllers :
          /\ ctl[c].clock = 2
          /\ now(ContextOf(c)) = 20
          /\ elapsed(ContextOf(c)) = 0

----------------------------------------------------------------------------
(* The clock of a TimeContext *)

\* C4: while a clock has been moved by advance and tick alone, with durations that
\* are numbers (a negative one is rejected and moves nothing), now() never
\* decreases and, between the calls, elapsed() is the sum of the durations advanced.
AdvancesAddUp ==
    [][\A x \in ctxs :
          clocks'[x.clock].plain
            => /\ Geq(now(x)', now(x))
               /\ op'.kind = "none" => elapsed(x)' = clocks'[x.clock].adv
      ]_vars

\* two advances, or an advance by "2ms", have run a timer on the way and brought
\* elapsed() to 2
AdvancedByTwo ==
    /\ op.kind = "none"
    /\ \E x \in ctxs :
          /\ clocks[x.clock].plain
          /\ clocks[x.clock].adv = 2
          /\ elapsed(x) = 2
    /\ \E p \in 1..Len(probes) : probes[p].fires = 1

\* C5: while a controller is installed, its clock's time is at least its baseTime
\* and elapsed() is not negative.
ElapsedNeverNegative ==
    \A c \in Controllers :
        isInstalled(c)
          => /\ Geq(nowMs(ContextOf(c)), getBaseTime(c))
             /\ Geq(elapsed(ContextOf(c)), 0)

\* C6: a clock's time changes only in a macrotask of advance, tick or flush on
\* that clock: getContext, scheduling a timer, install and uninstall of a
\* controller and the passing of real time leave it as it is; the baseTime of a
\* controller does not change while the controller is installed.
FrozenUntilAdvanced ==
    [][/\ \A k \in 1..Len(clocks) :
             clocks'[k].now # clocks[k].now
               => (DoTick \/ NextPromiseTick \/ RunAllStep) /\ op.clock = k
       /\ \A c \in Controllers :
             (isInstalled(c) /\ isInstalled(c)') => getBaseTime(c)' = getBaseTime(c)
      ]_vars

\* a timer was scheduled on an installed clock that had been advanced by 1, and
\* the clock is still there
ScheduledWhileFrozen ==
    /\ last = Outcome("setTimeout", "ok")
    /\ op.kind = "none"
    /\ isInstalled(1)
    /\ elapsed(ContextOf(1)) = 1
    /\ clocks[ctl[1].clock].timers # <<>>

----------------------------------------------------------------------------
(* Timers *)

\* the timers of the clock that the operation in flight works on, after the step
TimersAfter == clocks'[op.clock].timers

\* the step settles the advance or tick in flight, which resolves
AdvanceResolves == op.kind = "tick" /\ op'.kind = "none" /\ last'.res = "ok"

\* the step settles the flush in flight
FlushSettles == op.kind = "runAll" /\ op'.kind = "none"

OneShotRunsWhenDue ==
    [][/\ \A p \in 1..Len(probes') : probes'[p].fires <= 1
       /\ AdvanceResolves
             => \A i \in 1..Len(TimersAfter) :
                   (TimersAfter[i].probe # 0 /\ probes'[TimersAfter[i].probe].oneShot)
                     => ~Leq(probes'[TimersAfter[i].probe].due, clocks'[op.clock].now)
       /\ \A p \in 1..Len(probes) :
             (op'.kind = "tick" /\ probes'[p].fires > probes[p].fires)
               => Leq(probes[p].due, op'.tickTo)
      ]_vars

\* C8, amended: the time of a one-shot timer is t+d, or t+1 when d is 0 and the
\* timer is scheduled while the clock runs timers; the timer runs at most once, is
\* not left pending by an advance that resolves at its time or later, and runs in
\* no advance that ends before t+d.
OneShotRunsAtItsTime ==
    [][/\ \A p \in 1..Len(probes') : probes'[p].fires <= 1
       /\ \A k \in 1..Len(clocks') : \A i \in 1..Len(clocks'[k].timers) :
             LET t == clocks'[k].timers[i]
             IN  (t.probe # 0 /\ probes'[t.probe].oneShot)
                   => \/ t.callAt = probes'[t.probe].due
                      \/ t.callAt = Plus(probes'[t.probe].due, 1)
       /\ AdvanceResolves
             => \A i \in 1..Len(TimersAfter) :
                   (TimersAfter[i].probe # 0 /\ probes'[TimersAfter[i].probe].oneShot)
                     => ~Leq(TimersAfter[i].callAt, clocks'[op.clock].now)
       /\ \A p \in 1..Len(probes) :
             (op'.kind = "tick" /\ probes'[p].fires > probes[p].fires)
               => Leq(probes[p].due, op'.tickTo)
      ]_vars

\* an advance has resolved at the time a zero-delay timer was due, the timer, which
\* a callback scheduled, still pending
ZeroDelayLeftPending ==
    /\ last = Outcome("advance", "ok")
    /\ op.kind = "none"
    /\ \E k \in 1..Len(clocks) : \E i \in 1..Len(clocks[k].timers) :
          LET t == clocks[k].timers[i]
          IN  /\ t.probe # 0
              /\ probes[t.probe].oneShot
              /\ probes[t.probe].due = clocks[k].now
              /\ t.callAt = clocks[k].now + 1
    /\ \E p \in 1..Len(probes) : probes[p].fires = 1

\* C9: when flush resolves, the clock's timer queue is empty, every one-shot timer
\* on record has run, and the clock's time has not moved backward: it is the time
\* of the last timer the flush ran, or unchanged when it ran none.
FlushDrainsQueue ==
    [][(FlushSettles /\ last'.res = "ok")
          => /\ TimersAfter = <<>>
             /\ \A p \in 1..Len(probes') : probes'[p].oneShot => probes'[p].fires = 1
             /\ ~Lt(clocks'[op.clock].now, op.from)
             /\ clocks'[op.clock].now = IF op.fired THEN op.lastFired ELSE op.from
      ]_vars

\* a flush has resolved after it ran a timer that was due 2 ms later
FlushRanTimer ==
    /\ last = Outcome("flush", "ok")
    /\ clocks[1].adv = 0
    /\ clocks[1].now = clocks[1].start + 2
    /\ clocks[1].timers = <<>>
    /\ probes[1].fires = 1

\* C10, as claimed: a flush in which no endless chain of zero-delay timers ran and
\* no callback threw settles by resolving, with no timer pending.
FlushResolvesUnlessChain ==
    [][(FlushSettles /\ ~op.chain /\ last'.res # "callback error")
          => /\ last'.res = "ok"
             /\ TimersAfter = <<>>
      ]_vars

\* C10, amended: a flush settles, after running at most loopLimit timers; it
\* resolves only with the queue empty and fewer than loopLimit timers run, and it
\* rejects with the queue not drained when a repeating interval timer is pending:
\* the loopLimit stops an interval as it stops an endless chain.
FlushTerminates ==
    /\ (op.kind = "runAll") ~> (op.kind = "none")
    /\ [][/\ op'.kind = "runAll" => op'.i <= LoopLimit
          /\ FlushSettles
                => /\ last'.res = "ok" => (TimersAfter = <<>> /\ op.i < LoopLimit)
                   /\ (\E i \in 1..Len(TimersAfter) : TimersAfter[i].interval # 0)
                         => last'.res # "ok"
                   /\ last'.res = "Error: Aborting after running loopLimit timers"
                         => op.i = LoopLimit
          ]_vars

\* a flush has given up at the loopLimit on a repeating interval timer, which is
\* still pending
FlushGaveUpOnInterval ==
    /\ last = Outcome("flush", "Error: Aborting after running loopLimit timers")
    /\ \E i \in 1..Len(clocks[1].timers) : clocks[1].timers[i].interval # 0

----------------------------------------------------------------------------
(* Uninstall and the contexts handed out before it *)

\* C11: a timer runs only on a clock that a controller holds: once uninstall has
\* let go of a clock, no timer of that clock runs any more, whether an advance or
\* a flush of a context obtained earlier follows or the uninstall came while an
\* advance was running its timers.
UninstallDiscardsTimers ==
    [][\A p \in 1..Len(probes) :
          probes'[p].fires > probes[p].fires
            => \E c \in Controllers : ctl[c].clock = op.clock
      ]_vars

\* C12: uninstall() returns without an error and leaves the controller
\* Uninstalled; on an Installed controller it takes the controller's clock out of
\* the process's timer functions and Date; on an Uninstalled one, never installed
\* or uninstalled before, it changes nothing, so that a second uninstall in a row
\* adds nothing to the first.
UninstallIsIdempotent ==
    [][\A c \in Controllers :
          Uninstall(c)
            => /\ last' = Outcome("uninstall", "ok")
               /\ ~isInstalled(c)'
               /\ isInstalled(c)
                     => (globalClock' # ctl[c].clock /\ globalDate' # ctl[c].clock)
               /\ ~isInstalled(c)
                     => UNCHANGED <<ctl, clocks, globalClock, globalDate, ctxs, op, probes>>
      ]_vars

\* uninstall was called on a controller that had been uninstalled, while the other
\* controller is installed: the first clock is let go, the second one is still the
\* process's
UninstalledAgain ==
    /\ last = Outcome("uninstall", "ok")
    /\ Len(clocks) = 2
    /\ \A c \in Controllers : ctl[c].clock # 1
    /\ \E c \in Controllers : ctl[c].clock = 2
    /\ globalClock = 2
    /\ globalDate = 2

\* what a query gives its caller is a time (a number, NaN included), not an error
IsTimeValue(v) == v \in Int

\* C13: getContext() on an Uninstalled controller throws "not installed" and hands
\* out no context, and a context handed out earlier, once no controller holds its
\* clock any more, gives no time from now(), nowMs() or elapsed().
QueriesNeedInstalled ==
    [][/\ \A c \in Controllers :
             (GetContext(c) /\ ~isInstalled(c))
               => /\ last' = Outcome("getContext", "Error: TimeController not installed")
                  /\ ctxs' = ctxs
       /\ \A x \in ctxs' :
             (\A c \in Controllers : ctl'[c].clock # x.clock)
               => /\ ~IsTimeValue(now(x)')
                  /\ ~IsTimeValue(nowMs(x)')
                  /\ ~IsTimeValue(elapsed(x)')
      ]_vars

\* an operation in flight and an outcome, with "advance" for the name of the call
\* when the call is advance or tick
AsAdvance(o) == IF o.kind = "tick" THEN [o EXCEPT !.name = "advance"] ELSE o
OutcomeAsAdvance(l) == IF l.op \in {"advance", "tick"} THEN [l EXCEPT !.op = "advance"] ELSE l

\* the operation in flight, had the other of advance and tick been called
OtherCall(o) == [o EXCEPT !.name = IF @ = "tick" THEN "advance" ELSE "tick"]

\* the step A is possible in this state and ends where the step taken ends, the
\* name of the call apart
SameStep(A) ==
    \E cs \in {clocks'}, ps \in {probes'}, o \in {AsAdvance(op')},
       l \in {OutcomeAsAdvance(last')} :
        ENABLED (/\ A
                 /\ clocks' = cs
                 /\ probes' = ps
                 /\ AsAdvance(op') = o
                 /\ OutcomeAsAdvance(last') = l)

\* the clocks and the promise that the first macrotask of tickAsync starts from
TickStartClocks ==
    [clocks EXCEPT ![op.clock].duringTick = TRUE,
                   ![op.clock].plain = @ /\ ~IsNaN(op.ms)]
TickStartOp(o) ==
    [o EXCEPT !.tickFrom = clocks[o.clock].now,
              !.tickTo = Plus(clocks[o.clock].now, o.ms)]

\* C14: in every state and for every duration, tick(d) does what advance(d) does:
\* it fails with the same error or starts the same tickAsync on the same clock,
\* and each macrotask of that tickAsync runs the same timer, moves the clock to the
\* same time and settles the same way whichever of the two was called.
TickIsAdvance ==
    [][/\ \A x \in ctxs, d \in AliasDurations :
             /\ (last'.op = "tick" /\ CtxTick(x, d)) => SameStep(CtxAdvance(x, d))
             /\ (last'.op = "advance" /\ CtxAdvance(x, d)) => SameStep(CtxTick(x, d))
       /\ (DoTick /\ ~NegativeTick(op.ms))
             => SameStep(/\ DoTickInner(TickStartClocks, TickStartOp(OtherCall(op)))
                         /\ UNCHANGED <<ctl, globalClock, globalDate, ctxs>>)
       /\ (DoTick /\ NegativeTick(op.ms))
             => /\ last'.res = "TypeError: Negative ticks are not supported"
                /\ op' = Idle
                /\ UNCHANGED <<clocks, probes>>
       /\ NextPromiseTick
             => SameStep(/\ DoTickInner(clocks, OtherCall(op))
                         /\ UNCHANGED <<ctl, globalClock, globalDate, ctxs>>)
      ]_vars

\* a tick has resolved after running a timer, and moved the clock by 1
TickRanTimer ==
    /\ last = Outcome("tick", "ok")
    /\ op.kind = "none"
    /\ \E x \in ctxs : elapsed(x) = 1 /\ clocks[x.clock].adv = 1
    /\ \E p \in 1..Len(probes) : probes[p].fires = 1

----------------------------------------------------------------------------
(* The timestamps of replayed responses *)

\* the last call was transformResponseTimestamps of controller 1
Transformed == last.op = "transformResponseTimestamps"

\* this step is a call of transformResponseTimestamps of controller 1: last' holds
\* what it was given and what it returned, and the controller and the clocks are
\* as the call found them
TransformStep == last'.op = "transformResponseTimestamps" /\ last' # last

\* C15: transformResponseTimestamps returns the body it was given, unchanged,
\* whenever the controller is uninstalled or transformResponses.enabled is false,
\* whatever the body, the capture time and the excluded keys
TransformOffKeepsBody ==
    [][(/\ TransformStep
        /\ ctl[1].clock = NoClock \/ ~ctl[1].transformResponses.enabled)
          => last'.res = "ok" /\ last'.out = last'.body]_vars

\* a body with timestamps came back unchanged from an installed controller whose
\* clock is past the capture time, because enabled is false
DisabledKeptBody ==
    /\ Transformed
    /\ ctl[1].clock # NoClock
    /\ ~ctl[1].transformResponses.enabled
    /\ clocks[ctl[1].clock].now > last.at
    /\ last.body = BodyExample
    /\ last.out = BodyExample

\* C16: when the clock's time equals the capture time the body is returned as it
\* was given, character for character, with or without excluded keys and whether
\* or not the body is JSON
ZeroDeltaKeepsBody ==
    [][(/\ TransformStep
        /\ ctl[1].clock # NoClock
        /\ clocks[ctl[1].clock].now = last'.at)
          => last'.res = "ok" /\ last'.out = last'.body]_vars

\* a JSON body written with spaces came back with its spaces from an enabled
\* controller with excluded keys whose clock is at the capture time
ZeroDeltaKeptSpaces ==
    /\ Transformed
    /\ ctl[1].clock # NoClock
    /\ ctl[1].transformResponses.enabled
    /\ Len(ctl[1].transformResponses.excludeKeys) > 0
    /\ clocks[ctl[1].clock].now = last.at
    /\ last.body = BodySpaced
    /\ last.out = BodySpaced

\* the matches of the timestamp pattern in s from position i on, in order
RECURSIVE StampsFrom(_, _)
StampsFrom(s, i) ==
    LET j == NextMatch(s, i)
    IN  IF j = 0 THEN <<>>
        ELSE <<SubSeq(s, j, j + IsoMatchLen(s, j) - 1)>> \o StampsFrom(s, j + IsoMatchLen(s, j))

Stamps(s) == StampsFrom(s, 1)

\* body given and body returned hold the same number of timestamps, and each
\* timestamp of the body returned is either the text it was or the instant it was
\* plus delta; with all set, each one is that instant plus delta
ShiftedBy(given, returned, delta, all) ==
    LET before == Stamps(given)
        after == Stamps(returned)
    IN  /\ Len(after) = Len(before)
        /\ \A i \in 1..Len(before) :
              \/ ~all /\ after[i] = before[i]
              \/ DateParse(after[i]) = AddMs(DateParse(before[i]), delta)

\* the statement of C17 as it was made: for a call that returns while no advance
\* or flush is in flight, each rewritten timestamp is its original instant plus
\* (baseTime + sum of the durations advanced so far) - capturedAt
ShiftedByDurationsAdvanced ==
    [][(/\ TransformStep
        /\ last'.res = "ok"
        /\ ctl[1].clock # NoClock
        /\ op = Idle)
          => ShiftedBy(last'.body, last'.out,
                       ctl[1].baseTime + clocks[ctl[1].clock].adv - last'.at, FALSE)]_vars

\* C17: each timestamp that transformResponseTimestamps has rewritten is its
\* original instant plus delta, delta being the clock's time minus the capture
\* time, negative when the capture time is ahead of the clock; without excluded
\* keys every timestamp of the body is rewritten so once the controller is
\* installed and enabled. The clock's time is baseTime plus the durations advanced
\* while nothing but advance and tick has moved the clock and none is in flight.
ShiftedByClockDelta ==
    [][(TransformStep /\ last'.res = "ok" /\ ctl[1].clock # NoClock)
          => /\ ShiftedBy(last'.body, last'.out,
                          clocks[ctl[1].clock].now - last'.at,
                          /\ ctl[1].transformResponses.enabled
                          /\ ctl[1].transformResponses.excludeKeys = <<>>)
             /\ clocks[ctl[1].clock].plain /\ op = Idle
                  => clocks[ctl[1].clock].now
                       = ctl[1].baseTime + clocks[ctl[1].clock].adv]_vars

\* after install at T (20 ms) and an advance by 1 that has resolved, the body with
\* two timestamps T, captured at T, came back with both at T + 1
ShiftedAfterAdvance ==
    /\ Transformed
    /\ op = Idle
    /\ ctl[1].clock # NoClock
    /\ clocks[ctl[1].clock].adv = 1
    /\ clocks[ctl[1].clock].plain
    /\ last.body = BodyExample
    /\ last.at = 20
    /\ Stamps(last.out) = <<toISOString(TimeOfMs(21)), toISOString(TimeOfMs(21))>>

\* this step is a call of transformResponseTimestamps on an installed and enabled
\* controller with excluded keys, the clock being off the capture time
ExcludingStep ==
    /\ TransformStep
    /\ ctl[1].clock # NoClock
    /\ ctl[1].transformResponses.enabled
    /\ Len(ctl[1].transformResponses.excludeKeys) > 0
    /\ clocks[ctl[1].clock].now # last'.at

\* key is one of excludeKeys
InKeys(key, excludeKeys) == \E k \in 1..Len(excludeKeys) : excludeKeys[k] = key

\* value b is value a with each timestamp string whose own key (key is <<>> for a
\* string that is no value of an object entry) is in excludeKeys left as it was
\* and every other timestamp string shifted by delta
RECURSIVE RespectsKeys(_, _, _, _, _)
RespectsKeys(a, b, key, delta, excludeKeys) ==
    IF a.t = "string"
    THEN IsIsoTimestamp(a.s)
           => IF key # <<>> /\ InKeys(key[1], excludeKeys) THEN b = a
              ELSE /\ b.t = "string"
                   /\ IsIsoTimestamp(b.s)
                   /\ DateParse(b.s) = AddMs(DateParse(a.s), delta)
    ELSE IF a.t = "array"
    THEN /\ b.t = "array"
         /\ Len(b.items) = Len(a.items)
         /\ \A k \in 1..Len(a.items) :
               RespectsKeys(a.items[k], b.items[k], <<>>, delta, excludeKeys)
    ELSE IF a.t = "object"
    THEN /\ b.t = "object"
         /\ Len(b.items) = Len(a.items)
         /\ \A k \in 1..Len(a.items) :
               /\ b.items[k].key = a.items[k].key
               /\ RespectsKeys(a.items[k].value, b.items[k].value, <<a.items[k].key>>,
                               delta, excludeKeys)
    ELSE TRUE

\* C18: with excluded keys, a JSON body and a delta that is not zero, each
\* timestamp string whose own key is excluded is the same in the body returned, at
\* any depth, and each timestamp string under another key is shifted by delta
ExcludedKeysRespected ==
    [][(ExcludingStep /\ JSONParse(last'.body).ok)
          => /\ last'.res = "ok"
             /\ JSONParse(last'.out).ok
             /\ RespectsKeys(JSONParse(last'.body).value, JSONParse(last'.out).value,
                             <<>>, clocks[ctl[1].clock].now - last'.at,
                             ctl[1].transformResponses.excludeKeys)]_vars

\* value b is value a with the value of each object entry whose key is in
\* excludeKeys left as it was, whatever it is (the empty key, which C18 is about,
\* set aside)
RECURSIVE KeepsExcluded(_, _, _)
KeepsExcluded(a, b, excludeKeys) ==
    IF a.t = "array"
    THEN /\ b.t = "array"
         /\ Len(b.items) = Len(a.items)
         /\ \A k \in 1..Len(a.items) : KeepsExcluded(a.items[k], b.items[k], excludeKeys)
    ELSE IF a.t = "object"
    THEN /\ b.t = "object"
         /\ Len(b.items) = Len(a.items)
         /\ \A k \in 1..Len(a.items) :
               /\ b.items[k].key = a.items[k].key
               /\ IF a.items[k].key # KeyEmpty /\ InKeys(a.items[k].key, excludeKeys)
                  THEN b.items[k].value = a.items[k].value
                  ELSE KeepsExcluded(a.items[k].value, b.items[k].value, excludeKeys)
    ELSE TRUE

\* C19: in the rewriting with excluded keys the value of an object entry whose key
\* is excluded comes back untouched whatever its type: no timestamp inside a
\* string, an array or an object under an excluded key is rewritten
ExcludedValuesUntouched ==
    [][(ExcludingStep /\ JSONParse(last'.body).ok /\ last'.res = "ok")
          => /\ JSONParse(last'.out).ok
             /\ KeepsExcluded(JSONParse(last'.body).value, JSONParse(last'.out).value,
                              ctl[1].transformResponses.excludeKeys)]_vars

\* C20: with excluded keys and a body that is not JSON the call does not fail, and
\* returns what the plain substitution of the pattern returns for the same body
\* and delta
NonJsonFallsBack ==
    [][(ExcludingStep /\ ~JSONParse(last'.body).ok)
          => /\ last'.res = "ok"
             /\ last'.out
                  = ReplaceTimestamps(last'.body, clocks[ctl[1].clock].now - last'.at).out]_vars

\* C21: transformResponseTimestamps never raises: whatever the body (JSON or not,
\* with text that matches the pattern and is no calendar instant), the delta and
\* the excluded keys, it returns a string
TransformNeverRaises == [][TransformStep => last'.res = "ok"]_vars

----------------------------------------------------------------------------
(* The recorder *)

\* this step is the beforeResponse hook rewriting the body of a replayed response
RewritingStep ==
    /\ last'.op = "beforeResponse"
    /\ last' # last
    /\ last'.found # 0

\* C22: each replayed response is rewritten with the capture instant of the entry
\* of the recording that produced it, also when several entries have the same
\* method and url: the entry whose startedDateTime gives the delta is the entry
\* replayed
OwnCaptureInstant ==
    [][RewritingStep
         => recorder.harEntries[last'.found].startedDateTime
              = files.har.entries[last'.replayed].startedDateTime]_vars

\* polly sends the requests to the real APIs (modes record and passthrough)
\* rather than answering them from the recording
HitsRealApis(r) == mode(r) \in {"record", "passthrough"}

\* C23: with timeControl, whatever options.mode and REAL_APIS are, a recorder that
\* has started and whose requests hit the real APIs has no time controller and no
\* clock is installed, and one whose requests are replayed from a recording with
\* entries has a time controller installed at the startedDateTime of the first
\* entry
TimeContextFollowsMode ==
    [][(Start /\ recorder.options.timeControl /\ recorder.controllers = 0)
          => /\ HitsRealApis(recorder)
                  => recorder'.timeController = 0 /\ globalClock' = NoClock
             /\ (mode(recorder) = "replay" /\ Len(loadHar) > 0)
                  => /\ recorder'.timeController # 0
                     /\ ctl'[recorder'.timeController].clock # NoClock
                     /\ clocks'[ctl'[recorder'.timeController].clock].now
                          = DateGetTime(loadHar[1].startedDateTime)]_vars

----------------------------------------------------------------------------
(* Duration strings *)

\* what follows the leading digits of a text and the whitespace after them
WordOf(text) ==
    LET rest == Drop(text, LeadingRun(text, DigitChars))
    IN  Drop(rest, LeadingRun(rest, SpaceChars))

\* the text is digits, optional whitespace and one word
DigitsAndWord(text) ==
    /\ LeadingRun(text, DigitChars) >= 1
    /\ Len(WordOf(text)) >= 1
    /\ AllIn(WordOf(text), WordChars)

\* the unit set of the specification, whatever the letter case
RecognizedUnit(word) == ToLowerCase(word) \in DOMAIN Units

ParseErrors == {"Invalid duration format", "Unknown duration unit"}

\* C24: advance or tick called with a string that does not parse, or whose unit is
\* not recognized, fails with an error that echoes the offending text (the string,
\* or its unit), and the call moves no clock and fires no timer.
BadDurationFails ==
    [][\A x \in ctxs, text \in DurationTexts, name \in {"advance", "tick"} :
          (/\ CallTickAsync(name, x, Str(text))
           /\ ~(DigitsAndWord(text) /\ RecognizedUnit(WordOf(text))))
             => /\ last'.res \in ParseErrors
                /\ last'.text \in {text, WordOf(text)}
                /\ clocks' = clocks
                /\ probes' = probes
                /\ op' = op]_vars

\* parseDuration has returned or thrown
DurationParsed == last.op = "parseDuration"

\* parseDuration was given digits, optional whitespace and a recognized unit
ParsedDuration ==
    /\ DurationParsed
    /\ last.arg.t = "string"
    /\ DigitsAndWord(last.arg.v)
    /\ RecognizedUnit(WordOf(last.arg.v))

\* the digits of text times the multiplier of its unit, as a mathematical integer
ExactMs(text) ==
    TimesDigits(Strip(DigitsOf(SubSeq(text, 1, LeadingRun(text, DigitChars)))),
                Units[ToLowerCase(WordOf(text))])

\* the digits of the number returned
ReturnedMs(result) == IF result.big THEN result.ms ELSE Decimal(result.ms)

ReturnsExactMs ==
    /\ last.result.ok
    /\ ~(~last.result.big /\ IsNaN(last.result.ms))
    /\ ReturnedMs(last.result) = ExactMs(last.arg.v)

NumberUnchanged ==
    (DurationParsed /\ last.arg.t = "number")
        => last.result.ok /\ ~last.result.big /\ last.result.ms = last.arg.v

UnknownUnitFails ==
    (/\ DurationParsed
     /\ last.arg.t = "string"
     /\ DigitsAndWord(last.arg.v)
     /\ ~RecognizedUnit(WordOf(last.arg.v)))
        => /\ ~last.result.ok
           /\ last.result.err = "Unknown duration unit"
           /\ last.result.text = WordOf(last.arg.v)

TwoX == Str(<<"2", "x">>)
FiveFortnights == Str(<<"5", " ", "f", "o", "r", "t", "n", "i", "g", "h", "t", "s">>)

\* C27: parseDuration("2x") fails with the format error, parseDuration("5
\* fortnights") with the unknown-unit error.
TwoXIsFormatError ==
    /\ (DurationParsed /\ last.arg = TwoX)
          => ~last.result.ok /\ last.result.err = "Invalid duration format"
    /\ (DurationParsed /\ last.arg = FiveFortnights)
          => ~last.result.ok /\ last.result.err = "Unknown duration unit"

----------------------------------------------------------------------------
(* Recordings *)

\* a header that carries an API key or an auth token: one of those the recorder
\* names (authorization, x-api-key, api-key, ...)
CarriesSecret(name) == SomeIncluded(name, DEFAULT_HEADERS_TO_REDACT)

AllRedacted(headers) ==
    \A i \in 1..Len(headers) : CarriesSecret(headers[i].name) => headers[i].value = "[REDACTED]"

\* C28: in every recording that is persisted, whatever the configuration of the
\* recorder, a request or response header that carries an API key or an auth
\* token has the value "[REDACTED]".
SecretsRedacted ==
    \A i \in 1..Len(files.har.entries) :
        /\ AllRedacted(files.har.entries[i].requestHeaders)
        /\ AllRedacted(files.har.entries[i].responseHeaders)

----------------------------------------------------------------------------
(* Snapshots and the end of a pollyTest *)

SnapshotStep == last'.op = "snapshot" /\ last' # last
LoadSnapshotStep == last'.op = "loadSnapshot" /\ last' # last

\* C29: snapshot(data) writes to the snapshot store only in real API mode: a
\* snapshot call in replay mode leaves every stored snapshot as it is,
\* loadSnapshot writes in neither mode, and nothing else of a run writes there.
SnapshotWritesOnlyInRealMode ==
    [][/\ (SnapshotStep /\ ~isRealMode(recorder)) => files'.snapshot = files.snapshot
       /\ LoadSnapshotStep => files'.snapshot = files.snapshot
       /\ files'.snapshot # files.snapshot => SnapshotStep /\ isRealMode(recorder)]_vars

\* a replay-mode run has called snapshot with data other than what is stored
ReplaySnapshotCalled ==
    /\ last.op = "snapshot"
    /\ ~isRealMode(recorder)
    /\ files.snapshot[ThisSnapshot].exists
    /\ files.snapshot[ThisSnapshot].json # last.data

\* a real-mode run has saved a snapshot
RealSnapshotSaved ==
    /\ last.op = "snapshot"
    /\ isRealMode(recorder)
    /\ files.snapshot[ThisSnapshot] = [exists |-> TRUE, json |-> last.data]

\* the recorder is stopped and has no clock, and time is real
StoppedAndReal ==
    /\ ~recorder.polly
    /\ ~recorder.stopping
    /\ recorder.timeController = 0
    /\ globalClock = NoClock
    /\ globalDate = NoClock

\* C30: in a pollyTest run whose recorder was started, recorder.stop() is called
\* once the test function has settled and not before, whether the function
\* returned or threw; the run then comes to its end, and at its end the recorder
\* is stopped, it holds no clock and real time is in place.
StopAfterTestFunction ==
    /\ [][Stop => test.phase = "finally"]_vars
    /\ (test.phase = "finally" /\ test.threw) ~> (test.phase = "done")
    /\ (test.phase = "finally" /\ ~test.threw) ~> (test.phase = "done")
    /\ [](test.phase = "done" => StoppedAndReal)

\* a run whose test function threw has ended with the recorder stopped
ThrowingTestStopped ==
    /\ test.phase = "done"
    /\ test.threw
    /\ last = Outcome("pollyTest", "error")
    /\ StoppedAndReal

----------------------------------------------------------------------------
(* The mode of the pollytest command *)

\* the test command has been spawned
Spawned == runner.phase \in {"spawned", "closed"}

\* C31: the mode of the runner decides real or replay for the test command it
\* spawns, whatever the environment of the runner: with --real the test command
\* has REAL_APIS=true, and with --recorded it has no REAL_APIS=true and its
\* recorder is in replay mode.
RunnerModeDecides ==
    Spawned =>
        /\ runner.mode = "real" => runner.child["REAL_APIS"] = "true"
        /\ runner.mode = "recorded" =>
              /\ runner.child["REAL_APIS"] # "true"
              /\ recorder.made => mode(recorder) = "replay" /\ ~isRealMode(recorder)

----------------------------------------------------------------------------
(* The sessions of a controller *)

\* C32: all consumers observe one clock: whenever the controller is installed,
\* now(), nowMs() and elapsed() of every context getContext() has handed out are
\* the time of the controller's clock and that time less the controller's
\* baseTime, and the delta of transformResponseTimestamps is taken from the same
\* time, also after an uninstall and an install at another base time.
OneClockForAll ==
    isInstalled(1) =>
        \A x \in ctxs :
            /\ now(x) = clocks[ctl[1].clock].now
            /\ nowMs(x) = clocks[ctl[1].clock].now
            /\ elapsed(x) = Minus(clocks[ctl[1].clock].now, getBaseTime(1))
            /\ \A at \in CaptureTimes : Delta(1, at) = Minus(nowMs(x), at)

----------------------------------------------------------------------------
(* An advance and the timers it runs *)

\* the step is a macrotask of the advance or tick in flight that runs a timer
RunsTimer == op.kind = "tick" /\ op'.kind = "tick" /\ op' # op

\* timer i of the clock of the operation in flight is the one the step runs: an
\* interval (known by the number of its record) is moved to its next time, a
\* one-shot timer on record is counted
TimerRan(i) ==
    LET t == clocks[op.clock].timers[i]
    IN  IF t.interval # 0
        THEN \E j \in 1..Len(TimersAfter) :
                /\ TimersAfter[j].probe = t.probe
                /\ TimersAfter[j].callAt # t.callAt
        ELSE t.probe # 0 /\ probes'[t.probe].fires > probes[t.probe].fires

\* C33: an advance is elapsed time for the timers. During advance(N) called at
\* time t, each timer that runs does so while the clock reads the timer's own
\* time s, which lies in [t, t+N] (not t and not t+N unless s is); an interval
\* that runs is moved exactly one period on, so that it runs once at each of its
\* times up to t+N; and when the advance resolves the clock reads t+N and no
\* timer with a time up to t+N is left.
AdvanceIsElapsedTime ==
    [][/\ RunsTimer
             => /\ clocks'[op.clock].now = op'.lastFired
                /\ Leq(op.from, op'.lastFired)
                /\ Leq(op'.lastFired, Plus(op.from, op.ms))
                /\ \E i \in 1..Len(clocks[op.clock].timers) :
                      clocks[op.clock].timers[i].callAt = op'.lastFired
                /\ \A i \in 1..Len(clocks[op.clock].timers) :
                      TimerRan(i)
                        => /\ clocks'[op.clock].now = clocks[op.clock].timers[i].callAt
                           /\ clocks[op.clock].timers[i].interval # 0
                                 => \A j \in 1..Len(TimersAfter) :
                                       TimersAfter[j].probe = clocks[op.clock].timers[i].probe
                                         => TimersAfter[j].callAt
                                              = Plus(clocks[op.clock].timers[i].callAt,
                                                     clocks[op.clock].timers[i].interval)
       /\ AdvanceResolves
             => /\ clocks'[op.clock].now = Plus(op.from, op.ms)
                /\ \A i \in 1..Len(TimersAfter) :
                      ~Leq(TimersAfter[i].callAt, Plus(op.from, op.ms))
      ]_vars

\* an advance of 2 ms has resolved at t+2 after an interval of period 1 ran twice
\* on the way, at t+1 and at t+2: its next time is t+3
IntervalRanEachPeriod ==
    /\ last = Outcome("advance", "ok")
    /\ op.kind = "none"
    /\ clocks[1].now = clocks[1].start + 2
    /\ clocks[1].adv = 2
    /\ Len(clocks[1].timers) = 1
    /\ clocks[1].timers[1].interval = 1
    /\ clocks[1].timers[1].callAt = clocks[1].start + 3

----------------------------------------------------------------------------
(* Arrays and excluded keys *)

\* value b is value a with each timestamp string that is the value of an object
\* entry whose key is in kept left as it was, and every other timestamp string,
\* the items of arrays among them, shifted by delta (key is <<>> for a string that
\* is no value of an object entry, whatever is above it)
RECURSIVE DecidedByOwnKey(_, _, _, _, _)
DecidedByOwnKey(a, b, key, delta, kept) ==
    IF a.t = "string"
    THEN IsIsoTimestamp(a.s)
           => IF key # <<>> /\ key[1] \in kept THEN b = a
              ELSE /\ b.t = "string"
                   /\ IsIsoTimestamp(b.s)
                   /\ DateParse(b.s) = AddMs(DateParse(a.s), delta)
    ELSE IF a.t = "array"
    THEN /\ b.t = "array"
         /\ Len(b.items) = Len(a.items)
         /\ \A k \in 1..Len(a.items) :
               DecidedByOwnKey(a.items[k], b.items[k], <<>>, delta, kept)
    ELSE IF a.t = "object"
    THEN /\ b.t = "object"
         /\ Len(b.items) = Len(a.items)
         /\ \A k \in 1..Len(a.items) :
               /\ b.items[k].key = a.items[k].key
               /\ DecidedByOwnKey(a.items[k].value, b.items[k].value,
                                  <<a.items[k].key>>, delta, kept)
    ELSE TRUE

\* C34: in the rewriting with excluded keys an array hands no key down to its
\* items: a timestamp string that is an item of an array is shifted by delta
\* whatever key the array is stored under, and whether a timestamp string is left
\* alone depends on nothing but the key of the object entry it is the value of:
\* there is a set of excluded keys such that exactly the values of entries with
\* a key of that set are left alone.
ArrayItemsInheritNoKey ==
    [][(ExcludingStep /\ JSONParse(last'.body).ok)
          => /\ last'.res = "ok"
             /\ \E given \in { JSONParse(last'.body) }, returned \in { JSONParse(last'.out) } :
                   /\ returned.ok
                   /\ \E kept \in SUBSET { ctl[1].transformResponses.excludeKeys[k] :
                                             k \in 1..Len(ctl[1].transformResponses.excludeKeys) } :
                         DecidedByOwnKey(given.value, returned.value, <<>>,
                                         clocks[ctl[1].clock].now - last'.at, kept)]_vars

\* the nested body came back, captured 1 ms before the clock's time, with the
\* timestamp that is the first item of the array under the excluded key birthDate
\* shifted by 1 ms, and the birthDate inside the array under items as it was
ItemUnderExcludedKeyShifted ==
    /\ Transformed
    /\ last.res = "ok"
    /\ last.body = BodyNested
    /\ ctl[1].clock # NoClock
    /\ InKeys(KeyBirthDate, ctl[1].transformResponses.excludeKeys)
    /\ clocks[ctl[1].clock].now = last.at + 1
    /\ LET given == JSONParse(last.body).value
           returned == JSONParse(last.out).value
       IN  /\ given.items[2].key = KeyBirthDate
           /\ given.items[2].value.items[1].s = StampPlain
           /\ DateParse(returned.items[2].value.items[1].s)
                = AddMs(DateParse(StampPlain), 1)
           /\ returned.items[1].value.items[1] = given.items[1].value.items[1]

----------------------------------------------------------------------------
(* The rewriting without excluded keys *)

\* this step is a call of transformResponseTimestamps on an installed and enabled
\* controller with no excluded keys, the clock being off the capture time
PlainStep ==
    /\ TransformStep
    /\ ctl[1].clock # NoClock
    /\ ctl[1].transformResponses.enabled
    /\ ctl[1].transformResponses.excludeKeys = <<>>
    /\ clocks[ctl[1].clock].now # last'.at

\* the text of s from position i on that no match of the timestamp pattern covers:
\* the stretches before, between and after the matches, in order
RECURSIVE GapsFrom(_, _)
GapsFrom(s, i) ==
    LET j == NextMatch(s, i)
    IN  IF j = 0 THEN <<SubSeq(s, i, Len(s))>>
        ELSE <<SubSeq(s, i, j - 1)>> \o GapsFrom(s, j + IsoMatchLen(s, j))

Gaps(s) == GapsFrom(s, 1)

\* C35: with no excluded keys the rewriting replaces each substring of the body
\* that matches the timestamp pattern by the instant it names plus delta, and
\* nothing else: the body returned has the same text before, between and after
\* its timestamps as the body given, whether the body is JSON or not.
PlainRewriteReplacesMatches ==
    [][PlainStep
          => /\ last'.res = "ok"
             /\ ShiftedBy(last'.body, last'.out, clocks[ctl[1].clock].now - last'.at, TRUE)
             /\ Gaps(last'.out) = Gaps(last'.body)]_vars

----------------------------------------------------------------------------
(* The clock of a stopped recorder *)

\* every stop() of the recorder has resolved and no start() has been called since
\* (start() sets polly before anything can fail, stop() sets it to null last)
RecorderStopped == recorder.made /\ ~recorder.polly /\ ~recorder.stopping

Reinstalls == Len(clocks) >= 1 /\ Len(clocks') = Len(clocks) + 1

\* C37: the sessions of a controller are isolated. After uninstall() and
\* install(T2), baseTime and the clock's time are T2, elapsed() is 0 and the new
\* clock has no timer pending; and while the new session lasts, no timer runs but
\* on the clock of that session, so none that was scheduled in an earlier one.
SessionsAreIsolated ==
    [][/\ Reinstalls
             => /\ isInstalled(1)'
                /\ \E arg \in InstallArgs :
                      /\ getBaseTime(1)' = DateGetTime(arg)
                      /\ clocks'[ctl'[1].clock].now = DateGetTime(arg)
                /\ clocks'[ctl'[1].clock].now = getBaseTime(1)'
                /\ clocks'[ctl'[1].clock].timers = <<>>
       /\ \A p \in 1..Len(probes) :
             (isInstalled(1) /\ probes'[p].fires > probes[p].fires)
               => op.clock = ctl[1].clock
      ]_vars

============================================================================
